---- MODULE Spec2Model ----
(***************************************************************************)
(* A model of the demonstration scripts of https-self-signed-client:       *)
(* the HTTPS client classes (self_signed_client.py, advanced_client.py,    *)
(* iot_client.py, local_site_client.py), the credential resolution of the  *)
(* device scripts, and the .env helper of config_credentials.py.           *)
(*                                                                         *)
(* Python values are modelled as follows: None is the string "None"        *)
(* where the other values are strings, a dict is a function whose DOMAIN   *)
(* is its key set, text that the code parses is a sequence of one-char     *)
(* strings, and an exception is a record [type, msg].                      *)
(***************************************************************************)
EXTENDS Integers, Sequences, FiniteSets, TLC

VARIABLES
    client,     \* the client object built last (self)
    pc,         \* position of the running client operation, "idle" between calls
    frame,      \* locals of the running operation
    result,     \* the dictionary under construction / returned by the last call
    raised,     \* exception type that left the last call, "None" if it returned
    open,       \* the HTTP clients and sockets that are open, each <<call, k>>:
                \* the k-th resource opened by call number `call`
    callNo,     \* number of client operations started so far
    sent,       \* HTTP requests sent during the current / last call
    lastReq,    \* [res, call] of the request sent last
    conn,       \* TLS parameters of the connection made last
    server,     \* the certificate the server presents
    envFile,    \* the file .env of the working directory: [exists, text]
    gitignore,  \* the file .gitignore of the working directory: [exists, text]
    environ,    \* the environment the shell hands to a script: name -> value
    auth,       \* [script, username, password]: the credentials a script authenticates with
    out,        \* how the last run of create_env_file ended
    now,        \* the clock time.time() reads, in seconds
    stdout,     \* what the script that ran last has printed, line by line
    project     \* the rest of the working directory that deployment_check inspects

netVars == <<client, pc, frame, result, raised, open, callNo,
             sent, lastReq, conn, server>>

fileVars == <<envFile, gitignore>>

scriptVars == <<now, stdout, project>>

vars == <<netVars, fileVars, environ, auth, out, scriptVars>>

----------------------------------------------------------------------------
(* Bounds *)

MaxCalls == 3

\* requests of one path exploration that may fail in transport
MaxFaults == 1

\* seconds a status request may take
MaxElapsed == 1

\* seconds time.sleep may return late
MaxLate == 1

----------------------------------------------------------------------------
(* Python helpers *)

None == "None"

EmptyDict == [k \in {} |-> 0]

\* dict.update(u): the entries of u win
Update(d, u) == u @@ d

Get(d, k, default) == IF k \in DOMAIN d THEN d[k] ELSE default

\* dict(pairs): a later pair with the same key wins
RECURSIVE DictOfPairs(_)
DictOfPairs(pairs) ==
    IF pairs = <<>> THEN EmptyDict
    ELSE (pairs[Len(pairs)][1] :> pairs[Len(pairs)][2])
             @@ DictOfPairs(SubSeq(pairs, 1, Len(pairs) - 1))

LowerChars == <<"a","b","c","d","e","f","g","h","i","j","k","l","m",
                "n","o","p","q","r","s","t","u","v","w","x","y","z">>
UpperChars == <<"A","B","C","D","E","F","G","H","I","J","K","L","M",
                "N","O","P","Q","R","S","T","U","V","W","X","Y","Z">>

UpperChar(c) ==
    IF \E i \in 1..26 : LowerChars[i] = c
    THEN UpperChars[CHOOSE i \in 1..26 : LowerChars[i] = c]
    ELSE c

LowerChar(c) ==
    IF \E i \in 1..26 : UpperChars[i] = c
    THEN LowerChars[CHOOSE i \in 1..26 : UpperChars[i] = c]
    ELSE c

\* str.upper() / str.lower()
upper(s) == [i \in 1..Len(s) |-> UpperChar(s[i])]
lower(s) == [i \in 1..Len(s) |-> LowerChar(s[i])]

----------------------------------------------------------------------------
(* Text: a str is a sequence of one-character strings *)

\* None where the other values are text
PyNone == <<"<None>">>

\* truth value of `x` for x a str or None
Truthy(x) == x # PyNone /\ x # <<>>

\* a or b
Or(a, b) == IF Truthy(a) THEN a ELSE b

Whitespace == {" ", "\t", "\n", "\r"}

RECURSIVE lstrip(_)
lstrip(s) == IF s # <<>> /\ s[1] \in Whitespace THEN lstrip(Tail(s)) ELSE s

RECURSIVE rstrip(_)
rstrip(s) ==
    IF s # <<>> /\ s[Len(s)] \in Whitespace THEN rstrip(SubSeq(s, 1, Len(s) - 1)) ELSE s

\* str.strip()
strip(s) == rstrip(lstrip(s))

\* s.startswith(p)
startswith(s, p) == Len(s) >= Len(p) /\ SubSeq(s, 1, Len(p)) = p

\* sub in s
Contains(s, sub) ==
    \E i \in 1..(Len(s) - Len(sub) + 1) : SubSeq(s, i, i + Len(sub) - 1) = sub

\* s.split(c, 1) for a c that occurs in s
split1(s, c) ==
    LET i == CHOOSE k \in 1..Len(s) : s[k] = c /\ \A j \in 1..(k - 1) : s[j] # c
    IN <<SubSeq(s, 1, i - 1), SubSeq(s, i + 1, Len(s))>>

\* the lines a text file yields when iterated, without their line ends
RECURSIVE Lines(_)
Lines(text) ==
    IF text = <<>> THEN <<>>
    ELSE IF \E k \in 1..Len(text) : text[k] = "\n"
    THEN LET i == CHOOSE k \in 1..Len(text) :
                     text[k] = "\n" /\ \A j \in 1..(k - 1) : text[j] # "\n"
         IN <<SubSeq(text, 1, i - 1)>> \o Lines(SubSeq(text, i + 1, Len(text)))
    ELSE <<text>>

NoFile == [exists |-> FALSE, text |-> <<>>]
File(text) == [exists |-> TRUE, text |-> text]

\* a working directory without a repository, project files or sources
NoProject == [git |-> "missing", files |-> {}, sources |-> {}]

\* no script has run: the clock at its origin, nothing printed
ScriptInit ==
    /\ now = 0
    /\ stdout = <<>>
    /\ project = NoProject

----------------------------------------------------------------------------
(* The environment: files on disk, the server's certificate, the replies *)

\* ca_cert_path values: unset, a certificate file, a missing file, a file that
\* exists and is not a PEM certificate
CaPaths == {None, "local-site.crt", "missing.crt", "garbage.crt"}

\* os.path.exists
exists(path) == path \in {"local-site.crt", "garbage.crt"}

\* ssl can load the file as trust roots
LoadablePEM(path) == path = "local-site.crt"

\* Certificates a server may present.  subject / issuer have the shape of
\* getpeercert(): a sequence of RDNs, each a sequence of <<key, value>>.
DeviceCert ==
    [subject   |-> << << <<"organizationName", "Device">> >>,
                      << <<"commonName", "192.168.0.113">> >> >>,
     issuer    |-> << << <<"organizationName", "Device">> >>,
                      << <<"commonName", "192.168.0.113">> >> >>,
     trustedBy |-> {"local-site.crt"}]

PublicCert ==
    [subject   |-> << << <<"commonName", "httpbin.org">> >> >>,
     issuer    |-> << << <<"organizationName", "Amazon">> >>,
                      << <<"commonName", "Amazon RSA 2048 M02">> >> >>,
     trustedBy |-> {"system"}]

\* issued by a private CA whose commonName equals the leaf's
PrivateCACert ==
    [subject   |-> << << <<"organizationName", "Plant">> >>,
                      << <<"commonName", "gateway">> >> >>,
     issuer    |-> << << <<"organizationName", "Plant Root CA">> >>,
                      << <<"commonName", "gateway">> >> >>,
     trustedBy |-> {"local-site.crt"}]

\* not chained to any root the client knows
UntrustedCert ==
    [subject   |-> << << <<"commonName", "rogue">> >> >>,
     issuer    |-> << << <<"commonName", "Rogue CA">> >> >>,
     trustedBy |-> {}]

Certs == {DeviceCert, PublicCert, PrivateCACert, UntrustedCert}

Statuses == {200, 301, 401, 500}

Reason(status) ==
    CASE status = 200 -> "OK"
      [] status = 301 -> "Moved Permanently"
      [] status = 401 -> "Unauthorized"
      [] status = 404 -> "Not Found"
      [] status = 500 -> "Internal Server Error"

ContentTypes == {None, "application/json", "text/html"}

\* lengths of the response text
TextLens == {0, 1001}

Responses == [status_code : Statuses, content_type : ContentTypes, len : TextLens]

NoExc == [type |-> "None", msg |-> ""]
Exc(type, msg) == [type |-> type, msg |-> msg]

----------------------------------------------------------------------------
(* TLS *)

NoConn == [by |-> "None", verify_mode |-> "None", roots |-> {}]

\* ssl.create_default_context()
create_default_context ==
    [verify_mode |-> "CERT_REQUIRED", check_hostname |-> TRUE, roots |-> {"system"}]

\* the context httpx builds for Client(verify=...): True, False or a CA file
httpx_ssl_context(verify) ==
    IF verify = "True" THEN create_default_context
    ELSE IF verify = "False"
    THEN [verify_mode |-> "CERT_NONE", check_hostname |-> FALSE, roots |-> {}]
    ELSE [verify_mode |-> "CERT_REQUIRED", check_hostname |-> TRUE, roots |-> {verify}]

\* httpx.Client(verify=...) can be constructed
httpx_client_constructs(verify) == verify \in {"True", "False"} \/ LoadablePEM(verify)

\* the handshake succeeds
Handshake(context, cert) ==
    \/ context.verify_mode = "CERT_NONE"
    \/ cert.trustedBy \cap context.roots # {}

\* SSLSocket.getpeercert(): the empty dict when the certificate was not validated
getpeercert(context, cert) ==
    IF context.verify_mode = "CERT_NONE" THEN EmptyDict
    ELSE ("subject" :> cert.subject) @@ ("issuer" :> cert.issuer)

\* dict(x[0] for x in rdns)
FirstOfEach(rdns) == DictOfPairs([i \in 1..Len(rdns) |-> rdns[i][1]])

BoolStr(b) == IF b THEN "True" ELSE "False"

----------------------------------------------------------------------------
(* Requests and replies *)

Methods == { <<"G","E","T">>, <<"g","e","t">>, <<"P","o","s","t">>,
             <<"P","U","T">>, <<"D","E","L","E","T","E">>, <<>> }

GoodUrl == "https://192.168.0.113"
Urls == {GoodUrl, "192.168.0.113/status", "https://[192.168.0.113"}

Hostnames == {"192.168.0.113", "httpbin.org"}

\* what httpx raises for the URL before anything is sent: UnsupportedProtocol
\* (a RequestError) without scheme, InvalidURL (a plain Exception) when malformed
UrlError(url) ==
    CASE url = "192.168.0.113/status"    -> Exc("RequestError", "UnsupportedProtocol")
      [] url = "https://[192.168.0.113"  -> Exc("Exception", "InvalidURL")
      [] OTHER                           -> NoExc

\* urlparse(url).hostname; "raise" where urlparse raises ValueError
urlparse_hostname(url) ==
    CASE url = "192.168.0.113/status"    -> None
      [] url = "https://[192.168.0.113"  -> "raise"
      [] OTHER                           -> "192.168.0.113"

NoResponse == [status_code |-> 0, content_type |-> None, len |-> 0]

NoFrame ==
    [fn |-> "None", method |-> <<>>, url |-> "", hostname |-> "", endpoint |-> "",
     held |-> <<>>,
     n |-> 0, verify |-> "False", context |-> create_default_context,
     exc |-> NoExc, response |-> NoResponse, ret |-> "idle", value |-> EmptyDict,
     i |-> 0, faults |-> 0, requested |-> <<>>, failed |-> {}, session |-> <<>>,
     duration |-> 0, interval |-> 0, start_time |-> 0, checks |-> 0, sleeps |-> 0]

\* Response.raise_for_status(): 4xx and 5xx always raise; whether a 3xx raises
\* depends on the httpx release, so both outcomes are possible
raise_for_status(response) ==
    IF response.status_code >= 400 THEN {TRUE}
    ELSE IF response.status_code >= 300 THEN {TRUE, FALSE}
    ELSE {FALSE}

\* response.text[:n] + ('...' if len(response.text) > n else ''), as <<length kept, marked>>
Preview(response, n) ==
    <<IF response.len > n THEN n ELSE response.len, response.len > n>>

\* entering a `with`: the frame holds one more resource of call number `call`
Opened(f, call) == [f EXCEPT !.held = Append(@, <<call, f.n + 1>>), !.n = @ + 1]
NewRes(f, call) == <<call, f.n + 1>>

\* a variant that closes on the success path only
ExitWith_leak(held) ==
    IF frame.exc # NoExc THEN open ELSE open \ {held[i] : i \in 1..Len(held)}

\* leaving every `with` of the frame, by return or by exception: __exit__ closes
ExitWith(held) == open \ {held[i] : i \in 1..Len(held)}

NoReq == [res |-> <<0, 0>>, call |-> 0]

\* a client operation is called; sent, lastReq and conn observe this call only
StartCall == /\ pc = "idle"
             /\ callNo < MaxCalls
             /\ callNo' = callNo + 1
             /\ sent' = 0
             /\ raised' = "None"
             /\ lastReq' = NoReq
             /\ conn' = NoConn

\* a script starts: one run of a script is one process
StartScript == /\ pc = "idle"
               /\ callNo = 0
               /\ callNo' = 1

\* what client.request(...) leaves behind: the set of possible <<exc, response, conn>>
Exchange(f) ==
    IF UrlError(f.url) # NoExc
    THEN {<<UrlError(f.url), NoResponse, conn>>}
    ELSE LET context == httpx_ssl_context(f.verify)
             c == [by |-> f.fn, verify_mode |-> context.verify_mode,
                   roots |-> context.roots]
         IN IF ~Handshake(context, server)
            THEN {<<Exc("RequestError", "CERTIFICATE_VERIFY_FAILED"), NoResponse, c>>}
            ELSE {<<Exc("RequestError", "ReadTimeout"), NoResponse, c>>}
                 \cup {<<NoExc, r, c>> : r \in Responses}

----------------------------------------------------------------------------
(* self_signed_client.py: SelfSignedHTTPSClient *)

\* __init__, lines 26-28: the object
SelfSignedHTTPSClient(verify_ssl, ca_cert_path) ==
    [cls |-> "SelfSignedHTTPSClient", verify_ssl |-> verify_ssl,
     ca_cert_path |-> ca_cert_path,
     username |-> PyNone, password |-> PyNone, args |-> <<PyNone, PyNone>>]

\* load_verify_locations of create_ssl_context raises
create_ssl_context_raises(self) ==
    /\ self.verify_ssl
    /\ self.ca_cert_path # None /\ exists(self.ca_cert_path)
    /\ ~LoadablePEM(self.ca_cert_path)

create_ssl_context(self) ==
    IF ~self.verify_ssl
    THEN [create_default_context EXCEPT !.check_hostname = FALSE,
                                        !.verify_mode = "CERT_NONE"]
    ELSE IF self.ca_cert_path # None /\ exists(self.ca_cert_path)
    THEN [create_default_context EXCEPT !.roots = @ \cup {self.ca_cert_path}]
    ELSE create_default_context

\* lines 77-96: the dictionary get_certificate_info builds from the TLS socket
certificate_info(hostname, context, presented) ==
    LET cert == getpeercert(context, presented)
        subject == IF DOMAIN cert # {} THEN FirstOfEach(Get(cert, "subject", <<>>))
                   ELSE EmptyDict
        issuer  == IF DOMAIN cert # {} THEN FirstOfEach(Get(cert, "issuer", <<>>))
                   ELSE EmptyDict
        is_self_signed == Get(subject, "commonName", None) = Get(issuer, "commonName", None)
    IN ("hostname" :> hostname) @@ ("port" :> 443)
       @@ ("ssl_version" :> "TLSv1.3")
       @@ ("is_self_signed" :> is_self_signed)
       @@ ("subject" :> subject) @@ ("issuer" :> issuer)

\* lines 67-70: create_ssl_context, socket.create_connection
get_certificate_info_Connect(hostname) ==
    /\ StartCall
    /\ client.cls = "SelfSignedHTTPSClient"
    /\ result' = EmptyDict
    /\ LET f == [NoFrame EXCEPT !.fn = "SelfSignedHTTPSClient.get_certificate_info",
                                !.hostname = hostname,
                                !.context = create_ssl_context(client)]
       IN \/ /\ create_ssl_context_raises(client)
             /\ frame' = [f EXCEPT !.exc = Exc("Exception", "SSLError")]
             /\ pc' = "return"
             /\ UNCHANGED open
          \/ /\ ~create_ssl_context_raises(client)
             /\ \E refused \in BOOLEAN :
                  IF refused
                  THEN /\ frame' = [f EXCEPT !.exc = Exc("Exception", "Connection refused")]
                       /\ pc' = "return"
                       /\ UNCHANGED open
                  ELSE /\ frame' = Opened(f, callNo + 1)
                       /\ open' = open \cup {NewRes(f, callNo + 1)}
                       /\ pc' = "wrap"
    /\ UNCHANGED <<client, server, envFile, gitignore, environ, auth, out, scriptVars>>

\* lines 71-96: context.wrap_socket and the body of the inner with
get_certificate_info_Wrap ==
    /\ pc = "wrap"
    /\ frame.fn = "SelfSignedHTTPSClient.get_certificate_info"
    /\ IF Handshake(frame.context, server)
       THEN /\ frame' = Opened(frame, callNo)
            /\ open' = open \cup {NewRes(frame, callNo)}
            /\ conn' = [by |-> frame.fn, verify_mode |-> frame.context.verify_mode,
                        roots |-> frame.context.roots]
            /\ result' = certificate_info(frame.hostname, frame.context, server)
       ELSE /\ frame' = [frame EXCEPT !.exc = Exc("Exception", "CERTIFICATE_VERIFY_FAILED")]
            /\ conn' = [by |-> frame.fn, verify_mode |-> frame.context.verify_mode,
                        roots |-> frame.context.roots]
            /\ UNCHANGED <<open, result>>
    /\ pc' = "return"
    /\ UNCHANGED <<client, raised, callNo, sent, lastReq, server, envFile, gitignore, environ, auth, out, scriptVars>>

\* leaving both with blocks, lines 97-98: except Exception, return
get_certificate_info_Return ==
    /\ pc = "return"
    /\ frame.fn = "SelfSignedHTTPSClient.get_certificate_info"
    /\ open' = ExitWith(frame.held)
    /\ result' = IF frame.exc # NoExc
                 THEN ("error" :> frame.exc.msg) @@ ("hostname" :> frame.hostname)
                      @@ ("port" :> 443)
                 ELSE result
    /\ frame' = [frame EXCEPT !.held = <<>>]
    /\ pc' = "idle"
    /\ UNCHANGED <<client, raised, callNo, sent, lastReq, conn, server, envFile, gitignore, environ, auth, out, scriptVars>>

\* client_kwargs['verify'] of make_request
SelfSigned_client_verify(self) ==
    IF self.ca_cert_path # None /\ exists(self.ca_cert_path)
    THEN self.ca_cert_path
    ELSE BoolStr(self.verify_ssl)

\* the fields make_request adds after raise_for_status accepted the response
success_fields(response) ==
    ("success" :> TRUE) @@ ("status_code" :> response.status_code)
    @@ ("reason_phrase" :> Reason(response.status_code))
    @@ ("headers" :> response.content_type)
    @@ ("content_type" :> IF response.content_type = None THEN "Unknown"
                          ELSE response.content_type)
    @@ ("content_length" :> response.len)
    @@ ("elapsed_time" :> 1)
    @@ ("content" :> Preview(response, 1000))

\* a variant without the final `except Exception`
SelfSigned_except_narrow(res, exc, response) ==
    CASE exc.type = "None" -> <<res, "None">>
      [] exc.type = "HTTPStatusError" ->
           <<Update(res, ("error" :> <<"HTTP", response.status_code,
                                        Reason(response.status_code)>>)
                         @@ ("status_code" :> response.status_code)
                         @@ ("response_content" :> Preview(response, 500))), "None">>
      [] exc.type = "RequestError" ->
           <<Update(res, "error" :> <<"Request error: ", exc.msg>>), "None">>
      [] OTHER -> <<res, exc.type>>

\* the except clauses of make_request; the value is <<result, exception that escapes>>
SelfSigned_except(res, exc, response) ==
    CASE exc.type = "None" -> <<res, "None">>
      [] exc.type = "HTTPStatusError" ->
           <<Update(res, ("error" :> <<"HTTP", response.status_code,
                                        Reason(response.status_code)>>)
                         @@ ("status_code" :> response.status_code)
                         @@ ("response_content" :> Preview(response, 500))), "None">>
      [] exc.type = "RequestError" ->
           <<Update(res, "error" :> <<"Request error: ", exc.msg>>), "None">>
      [] OTHER ->
           <<Update(res, "error" :> <<"Unexpected error: ", exc.msg>>), "None">>

\* lines 119-136: the result skeleton, client_kwargs, httpx.Client(...)
SelfSigned_make_request_Begin(method, url) ==
    /\ StartCall
    /\ client.cls = "SelfSignedHTTPSClient"
    /\ result' = ("url" :> url) @@ ("method" :> upper(method)) @@ ("success" :> FALSE)
    /\ LET verify == SelfSigned_client_verify(client)
           f == [NoFrame EXCEPT !.fn = "SelfSignedHTTPSClient.make_request",
                                !.method = method, !.url = url, !.verify = verify]
       IN IF httpx_client_constructs(verify)
          THEN /\ frame' = Opened(f, callNo + 1)
               /\ open' = open \cup {NewRes(f, callNo + 1)}
               /\ pc' = "request"
          ELSE /\ frame' = [f EXCEPT !.exc = Exc("Exception", "SSLError")]
               /\ pc' = "return"
               /\ UNCHANGED open
    /\ UNCHANGED <<client, server, envFile, gitignore, environ, auth, out, scriptVars>>

\* advanced_client.py lines 107-118: the fields of HTTPSClient.make_request
HTTPSClient_success_fields(response) ==
    success_fields(response) @@ ("encoding" :> "utf-8") @@ ("http_version" :> "HTTP/1.1")

\* one client.request, then raise_for_status and result.update({...}) of the
\* make_request of class cls
RequestOnce(cls) ==
    /\ sent' = sent + 1
    /\ lastReq' = [res |-> frame.held[Len(frame.held)], call |-> callNo]
    /\ \E x \in Exchange(frame) :
          /\ conn' = x[3]
          /\ IF x[1] # NoExc
             THEN /\ frame' = [frame EXCEPT !.exc = x[1]]
                  /\ UNCHANGED result
             ELSE \E rejects \in raise_for_status(x[2]) :
                    IF rejects
                    THEN /\ frame' = [frame EXCEPT !.exc = Exc("HTTPStatusError", ""),
                                                   !.response = x[2]]
                         /\ UNCHANGED result
                    ELSE /\ frame' = [frame EXCEPT !.response = x[2]]
                         /\ result' = Update(result,
                                              IF cls = "HTTPSClient"
                                              THEN HTTPSClient_success_fields(x[2])
                                              ELSE success_fields(x[2]))

\* a variant that tries again after a transport error
RequestStep_retry(cls) ==
    /\ RequestOnce(cls)
    /\ pc' = IF frame'.exc.type = "RequestError" /\ sent < 2 THEN "request" ELSE "return"

\* the body of `with httpx.Client(...) as client:` runs once, then the block is left
RequestStep(cls) ==
    /\ RequestOnce(cls)
    /\ pc' = "return"

\* lines 137-156
SelfSigned_make_request_Request ==
    /\ pc = "request"
    /\ frame.fn = "SelfSignedHTTPSClient.make_request"
    /\ RequestStep("SelfSignedHTTPSClient")
    /\ UNCHANGED <<client, raised, open, callNo, server, envFile, gitignore, environ, auth, out, scriptVars>>

\* leaving the with block (the client closes), lines 158-169: except clauses, return
SelfSigned_make_request_Return ==
    /\ pc = "return"
    /\ frame.fn = "SelfSignedHTTPSClient.make_request"
    /\ open' = ExitWith(frame.held)
    /\ LET h == SelfSigned_except(result, frame.exc, frame.response)
       IN /\ result' = h[1]
          /\ raised' = h[2]
    /\ frame' = [frame EXCEPT !.held = <<>>]
    /\ pc' = "idle"
    /\ UNCHANGED <<client, callNo, sent, lastReq, conn, server, envFile, gitignore, environ, auth, out, scriptVars>>

----------------------------------------------------------------------------
(* advanced_client.py: HTTPSClient *)

\* __init__, lines 19-20: the object
HTTPSClient(verify_ssl) ==
    [cls |-> "HTTPSClient", verify_ssl |-> verify_ssl, ca_cert_path |-> None,
     username |-> PyNone, password |-> PyNone, args |-> <<PyNone, PyNone>>]

\* get_ssl_info called directly
get_ssl_info_Call(hostname) ==
    /\ StartCall
    /\ client.cls = "HTTPSClient"
    /\ result' = EmptyDict
    /\ frame' = [NoFrame EXCEPT !.fn = "HTTPSClient.get_ssl_info",
                                !.hostname = hostname, !.ret = "idle"]
    /\ pc' = "ssl_connect"
    /\ UNCHANGED <<client, open, server, envFile, gitignore, environ, auth, out, scriptVars>>

\* lines 33-38: ssl.create_default_context(), socket.create_connection
get_ssl_info_Connect ==
    /\ pc = "ssl_connect"
    /\ \E refused \in BOOLEAN :
         IF refused
         THEN /\ frame' = [frame EXCEPT !.context = create_default_context,
                                        !.exc = Exc("Exception", "Connection refused")]
              /\ pc' = "ssl_return"
              /\ UNCHANGED open
         ELSE /\ frame' = Opened([frame EXCEPT !.context = create_default_context], callNo)
              /\ open' = open \cup {NewRes(frame, callNo)}
              /\ pc' = "ssl_wrap"
    /\ UNCHANGED <<client, result, raised, callNo, sent, lastReq, conn, server, envFile, gitignore, environ, auth, out, scriptVars>>

\* lines 39-57: context.wrap_socket and the dictionary built inside the with
get_ssl_info_Wrap ==
    /\ pc = "ssl_wrap"
    /\ conn' = [by |-> "HTTPSClient.get_ssl_info",
                verify_mode |-> frame.context.verify_mode, roots |-> frame.context.roots]
    /\ IF Handshake(frame.context, server)
       THEN LET cert == getpeercert(frame.context, server)
                f == Opened(frame, callNo)
            IN /\ frame' = [f EXCEPT !.value =
                              ("hostname" :> frame.hostname) @@ ("port" :> 443)
                              @@ ("ssl_version" :> "TLSv1.3")
                              @@ ("certificate" :>
                                    [subject |-> FirstOfEach(cert["subject"]),
                                     issuer  |-> FirstOfEach(cert["issuer"])])]
               /\ open' = open \cup {NewRes(frame, callNo)}
       ELSE /\ frame' = [frame EXCEPT !.exc = Exc("Exception", "CERTIFICATE_VERIFY_FAILED")]
            /\ UNCHANGED open
    /\ pc' = "ssl_return"
    /\ UNCHANGED <<client, result, raised, callNo, sent, lastReq, server, envFile, gitignore, environ, auth, out, scriptVars>>

\* leaving both with blocks, lines 58-59; back in make_request, line 94
get_ssl_info_Return ==
    /\ pc = "ssl_return"
    /\ open' = ExitWith(frame.held)
    /\ LET value == IF frame.exc # NoExc THEN ("error" :> frame.exc.msg)
                    ELSE frame.value
       IN result' = IF frame.ret = "idle" THEN value
                    ELSE Update(result, "ssl_info" :> value)
    /\ frame' = [frame EXCEPT !.held = <<>>, !.exc = NoExc, !.value = EmptyDict]
    /\ pc' = frame.ret
    /\ UNCHANGED <<client, raised, callNo, sent, lastReq, conn, server, envFile, gitignore, environ, auth, out, scriptVars>>

\* a variant whose RequestError clause records nothing
HTTPSClient_except_silent(res, exc, response) ==
    CASE exc.type = "None" -> <<res, "None">>
      [] exc.type = "HTTPStatusError" ->
           <<Update(res, ("error" :> <<"HTTP", response.status_code,
                                        Reason(response.status_code)>>)
                         @@ ("status_code" :> response.status_code)), "None">>
      [] exc.type = "RequestError" -> <<res, "None">>
      [] OTHER ->
           <<Update(res, "error" :> <<"Unexpected error: ", exc.msg>>), "None">>

\* the except clauses of make_request; the value is <<result, exception that escapes>>
HTTPSClient_except(res, exc, response) ==
    CASE exc.type = "None" -> <<res, "None">>
      [] exc.type = "HTTPStatusError" ->
           <<Update(res, ("error" :> <<"HTTP", response.status_code,
                                        Reason(response.status_code)>>)
                         @@ ("status_code" :> response.status_code)), "None">>
      [] exc.type = "RequestError" ->
           <<Update(res, "error" :> <<"Request error: ", exc.msg>>), "None">>
      [] OTHER ->
           <<Update(res, "error" :> <<"Unexpected error: ", exc.msg>>), "None">>

\* lines 80-94: the result skeleton, urlparse, the optional get_ssl_info
HTTPSClient_make_request_Begin(method, url, show_ssl_info) ==
    /\ StartCall
    /\ client.cls = "HTTPSClient"
    /\ result' = ("url" :> url) @@ ("method" :> upper(method)) @@ ("success" :> FALSE)
    /\ LET hostname == urlparse_hostname(url)
           f == [NoFrame EXCEPT !.fn = "HTTPSClient.make_request",
                                !.method = method, !.url = url,
                                !.verify = BoolStr(client.verify_ssl),
                                !.ret = "client"]
       IN IF hostname = "raise"
          THEN /\ frame' = [f EXCEPT !.exc = Exc("Exception", "Invalid IPv6 URL")]
               /\ pc' = "return"
          ELSE /\ frame' = [f EXCEPT !.hostname = hostname]
               /\ pc' = IF show_ssl_info /\ hostname # None
                        THEN "ssl_connect" ELSE "client"
    /\ UNCHANGED <<client, open, server, envFile, gitignore, environ, auth, out, scriptVars>>

\* line 97: httpx.Client(verify=self.verify_ssl, ...)
HTTPSClient_make_request_Client ==
    /\ pc = "client"
    /\ frame.fn = "HTTPSClient.make_request"
    /\ frame' = Opened(frame, callNo)
    /\ open' = open \cup {NewRes(frame, callNo)}
    /\ pc' = "request"
    /\ UNCHANGED <<client, result, raised, callNo, sent, lastReq, conn, server, envFile, gitignore, environ, auth, out, scriptVars>>

\* lines 98-118
HTTPSClient_make_request_Request ==
    /\ pc = "request"
    /\ frame.fn = "HTTPSClient.make_request"
    /\ RequestStep("HTTPSClient")
    /\ UNCHANGED <<client, raised, open, callNo, server, envFile, gitignore, environ, auth, out, scriptVars>>

\* leaving the with block, lines 120-130
HTTPSClient_make_request_Return ==
    /\ pc = "return"
    /\ frame.fn = "HTTPSClient.make_request"
    /\ open' = ExitWith(frame.held)
    /\ LET h == HTTPSClient_except(result, frame.exc, frame.response)
       IN /\ result' = h[1]
          /\ raised' = h[2]
    /\ frame' = [frame EXCEPT !.held = <<>>]
    /\ pc' = "idle"
    /\ UNCHANGED <<client, callNo, sent, lastReq, conn, server, envFile, gitignore, environ, auth, out, scriptVars>>

----------------------------------------------------------------------------
(* Credentials: .env, the process environment, the placeholders *)

DEVICE_IP == <<"D","E","V","I","C","E","_","I","P">>
DEVICE_USERNAME == <<"D","E","V","I","C","E","_","U","S","E","R","N","A","M","E">>
DEVICE_PASSWORD == <<"D","E","V","I","C","E","_","P","A","S","S","W","O","R","D">>
your_username == <<"y","o","u","r","_","u","s","e","r","n","a","m","e">>
your_password == <<"y","o","u","r","_","p","a","s","s","w","o","r","d">>

\* os.getenv(name, default) in the environment env
getenv(env, name, default) == IF name \in DOMAIN env THEN env[name] ELSE default

\* iot_client.load_env_file, lines 20-24: the loop over the lines of the file
RECURSIVE load_env_lines(_, _)
load_env_lines(lines, env_vars) ==
    IF lines = <<>> THEN env_vars
    ELSE LET line == strip(lines[1])
         IN IF line # <<>> /\ ~startswith(line, <<"#">>) /\ Contains(line, <<"=">>)
            THEN LET kv == split1(line, "=")
                 IN load_env_lines(Tail(lines),
                                   (strip(kv[1]) :> strip(kv[2])) @@ env_vars)
            ELSE load_env_lines(Tail(lines), env_vars)

\* iot_client.load_env_file: a missing file yields {}
load_env_file(file) ==
    IF file.exists THEN load_env_lines(Lines(file.text), EmptyDict) ELSE EmptyDict

\* os.environ[key] = value raises for the empty name: putenv rejects it with
\* OSError (EINVAL), older interpreters with ValueError
environ_setitem_raises(key) == key = <<>>

\* api_test.load_env_file, lines 19-23: the loop, storing into os.environ; the
\* value is os.environ afterwards and the exception that ended the loop
RECURSIVE api_test_load_env_lines(_, _)
api_test_load_env_lines(lines, env) ==
    IF lines = <<>> THEN [environ |-> env, raised |-> "None"]
    ELSE LET line == strip(lines[1])
         IN IF line # <<>> /\ ~startswith(line, <<"#">>) /\ Contains(line, <<"=">>)
            THEN LET kv == split1(line, "=")
                 IN IF environ_setitem_raises(strip(kv[1]))
                    THEN [environ |-> env, raised |-> "OSError"]
                    ELSE api_test_load_env_lines(Tail(lines),
                                                 (strip(kv[1]) :> strip(kv[2])) @@ env)
            ELSE api_test_load_env_lines(Tail(lines), env)

\* api_test.load_env_file, lines 16-23: nothing happens without the file
api_test_load_env_file(file, env) ==
    IF file.exists THEN api_test_load_env_lines(Lines(file.text), env)
    ELSE [environ |-> env, raised |-> "None"]

----------------------------------------------------------------------------
(* iot_client.py: IoTDeviceClient *)

NoAuth == [script |-> "None", username |-> PyNone, password |-> PyNone,
                  args |-> <<PyNone, PyNone>>]

\* a variant that asks the process environment before .env
resolve_credential_env_first(arg, env_vars, env, name, placeholder) ==
    Or(Or(arg, getenv(env, name, PyNone)), Or(Get(env_vars, name, PyNone), placeholder))

\* lines 52-53: argument or .env value or os.getenv(name, placeholder)
resolve_credential(arg, env_vars, env, name, placeholder) ==
    Or(Or(arg, Get(env_vars, name, PyNone)), getenv(env, name, placeholder))

\* __init__, lines 47-54: the object built in a directory with the .env `file`
\* by a process with the environment `env`
IoTDeviceClient(username, password, verify_ssl, file, env) ==
    LET env_vars == load_env_file(file)
    IN [cls |-> "IoTDeviceClient", verify_ssl |-> verify_ssl, ca_cert_path |-> None,
        username |-> resolve_credential(username, env_vars, env,
                                        DEVICE_USERNAME, your_username),
        password |-> resolve_credential(password, env_vars, env,
                                        DEVICE_PASSWORD, your_password),
        args |-> <<username, password>>]

\* IoTDeviceClient(username=..., password=..., verify_ssl=...)
IoTDeviceClient__init__(username, password, verify_ssl) ==
    /\ pc = "idle"
    /\ client' = IoTDeviceClient(username, password, verify_ssl, envFile, environ)
    /\ UNCHANGED <<pc, frame, result, raised, open, callNo, sent, lastReq, conn, server,
                   envFile, gitignore, environ, auth, out, scriptVars>>

Endpoints == {"/api/v1/status", "/info"}

\* lines 71-74: the URL and httpx.Client(verify=self.verify_ssl, timeout=30.0)
IoT_make_request_Begin(endpoint, method) ==
    /\ StartCall
    /\ client.cls = "IoTDeviceClient"
    /\ result' = EmptyDict
    /\ LET f == [NoFrame EXCEPT !.fn = "IoTDeviceClient._make_request",
                                !.method = method, !.url = GoodUrl,
                                !.endpoint = endpoint,
                                !.verify = BoolStr(client.verify_ssl)]
       IN /\ frame' = Opened(f, callNo + 1)
          /\ open' = open \cup {NewRes(f, callNo + 1)}
    /\ pc' = "request"
    /\ UNCHANGED <<client, server, envFile, gitignore, environ, auth, out, scriptVars>>

\* lines 93-107: the result of a response, the body parsed as json, text or raw
IoT_result(response, url, json_ok) ==
    ("success" :> (response.status_code < 400))
    @@ ("status_code" :> response.status_code)
    @@ ("url" :> url)
    @@ ("elapsed_time" :> 1)
    @@ (IF response.content_type = "application/json"
        THEN (IF json_ok THEN "data" :> response.len ELSE "raw" :> response.len)
        ELSE "text" :> response.len)

\* lines 82-109: the method dispatch, one client.get / post / put, the result
IoT_make_request_Request ==
    /\ pc = "request"
    /\ frame.fn = "IoTDeviceClient._make_request"
    /\ IF upper(frame.method) \in { <<"G","E","T">>, <<"P","O","S","T">>, <<"P","U","T">> }
       THEN /\ sent' = sent + 1
            /\ lastReq' = [res |-> frame.held[Len(frame.held)], call |-> callNo]
            /\ auth' = [script |-> "IoTDeviceClient._make_request",
                        username |-> client.username, password |-> client.password]
            /\ \E x \in Exchange(frame), json_ok \in BOOLEAN :
                 /\ conn' = x[3]
                 /\ IF x[1] # NoExc
                    THEN /\ frame' = [frame EXCEPT !.exc = x[1]]
                         /\ UNCHANGED result
                    ELSE /\ frame' = [frame EXCEPT !.response = x[2]]
                         /\ result' = IoT_result(x[2], <<frame.url, frame.endpoint>>, json_ok)
       ELSE /\ frame' = [frame EXCEPT !.exc = Exc("Exception", "Unsupported HTTP method")]
            /\ UNCHANGED <<sent, lastReq, auth, conn, result>>
    /\ pc' = "return"
    /\ UNCHANGED <<client, raised, open, callNo, server, envFile, gitignore, environ, out, scriptVars>>

\* leaving the with block, lines 111-116
IoT_make_request_Return ==
    /\ pc = "return"
    /\ frame.fn = "IoTDeviceClient._make_request"
    /\ open' = ExitWith(frame.held)
    /\ result' = IF frame.exc # NoExc
                 THEN ("success" :> FALSE) @@ ("error" :> frame.exc.msg)
                      @@ ("url" :> <<frame.url, frame.endpoint>>)
                 ELSE result
    /\ frame' = [frame EXCEPT !.held = <<>>]
    /\ pc' = "idle"
    /\ UNCHANGED <<client, raised, callNo, sent, lastReq, conn, server,
                   envFile, gitignore, environ, auth, out, scriptVars>>

----------------------------------------------------------------------------
(* The credentials of the other device scripts *)

\* api_test.py lines 27, 41-42: load_env_file() at import (the script ends there
\* when it raises), then os.getenv
api_test_credentials ==
    /\ pc = "idle"
    /\ api_test_load_env_file(envFile, environ).raised = "None"
    /\ LET os_environ == api_test_load_env_file(envFile, environ).environ
       IN auth' = [script |-> "api_test",
                   username |-> getenv(os_environ, DEVICE_USERNAME, your_username),
                   password |-> getenv(os_environ, DEVICE_PASSWORD, your_password)]
    /\ UNCHANGED <<netVars, fileVars, environ, out, scriptVars>>

\* local_site_access.py lines 21-22: os.getenv only
local_site_access_credentials ==
    /\ pc = "idle"
    /\ auth' = [script |-> "local_site_access",
                username |-> getenv(environ, DEVICE_USERNAME, your_username),
                password |-> getenv(environ, DEVICE_PASSWORD, your_password)]
    /\ UNCHANGED <<netVars, fileVars, environ, out, scriptVars>>

\* iot_client.py line 202 and 83: main builds IoTDeviceClient() and authenticates
\* with (self.username, self.password)
iot_client_credentials ==
    /\ pc = "idle"
    /\ LET env_vars == load_env_file(envFile)
       IN auth' = [script |-> "iot_client",
                   username |-> resolve_credential(PyNone, env_vars, environ,
                                                   DEVICE_USERNAME, your_username),
                   password |-> resolve_credential(PyNone, env_vars, environ,
                                                   DEVICE_PASSWORD, your_password)]
    /\ UNCHANGED <<netVars, fileVars, environ, out, scriptVars>>

----------------------------------------------------------------------------
(* local_site_client.py: LocalSiteClient *)

\* __init__, lines 31-35: the object
LocalSiteClient(verify_ssl, ca_cert_path) ==
    [cls |-> "LocalSiteClient", verify_ssl |-> verify_ssl,
     ca_cert_path |-> ca_cert_path,
     username |-> PyNone, password |-> PyNone, args |-> <<PyNone, PyNone>>]

\* create_client, lines 48-51: client_kwargs['verify']
create_client_verify(self) ==
    IF self.verify_ssl /\ self.ca_cert_path # None
    THEN self.ca_cert_path
    ELSE BoolStr(self.verify_ssl)

\* `with self.create_client() as client:` at the head of a try block: the frame
\* with the client held, or with the exception of httpx.Client(...)
create_client(f, call) ==
    IF httpx_client_constructs(f.verify)
    THEN Opened(f, call)
    ELSE [f EXCEPT !.exc = Exc("Exception", "SSLError")]

\* test_connection lines 80-85, authenticate_basic lines 142-147
LocalSite_Begin(fn) ==
    /\ StartCall
    /\ client.cls = "LocalSiteClient"
    /\ result' = EmptyDict
    /\ LET f == [NoFrame EXCEPT !.fn = fn, !.url = GoodUrl,
                                !.verify = create_client_verify(client)]
       IN /\ frame' = create_client(f, callNo + 1)
          /\ open' = open \cup {frame'.held[k] : k \in 1..Len(frame'.held)}
          /\ pc' = IF frame'.exc = NoExc THEN "request" ELSE "return"
    /\ UNCHANGED <<client, server, envFile, gitignore, environ, auth, out, scriptVars>>

test_connection_Begin == LocalSite_Begin("LocalSiteClient.test_connection")

authenticate_basic_Begin == LocalSite_Begin("LocalSiteClient.authenticate_basic")

\* test_connection lines 88-113
test_connection_result(response) ==
    ("success" :> TRUE) @@ ("status_code" :> response.status_code)
    @@ ("reason_phrase" :> Reason(response.status_code))
    @@ ("content_length" :> response.len)
    @@ ("content_preview" :> Preview(response, 1000))
    @@ (IF response.status_code = 401 THEN "requires_auth" :> TRUE ELSE EmptyDict)

\* authenticate_basic lines 154-170
authenticate_basic_result(response) ==
    ("success" :> (response.status_code < 400))
    @@ ("status_code" :> response.status_code)
    @@ ("content_preview" :> Preview(response, 500))

\* one client.get and the result built from the response
LocalSite_Request(fn) ==
    /\ pc = "request"
    /\ frame.fn = fn
    /\ sent' = sent + 1
    /\ lastReq' = [res |-> frame.held[Len(frame.held)], call |-> callNo]
    /\ \E x \in Exchange(frame) :
          /\ conn' = x[3]
          /\ IF x[1] # NoExc
             THEN /\ frame' = [frame EXCEPT !.exc = x[1]]
                  /\ UNCHANGED result
             ELSE /\ frame' = [frame EXCEPT !.response = x[2]]
                  /\ result' = IF fn = "LocalSiteClient.test_connection"
                               THEN test_connection_result(x[2])
                               ELSE authenticate_basic_result(x[2])
    /\ pc' = "return"
    /\ UNCHANGED <<client, raised, open, callNo, server,
                   envFile, gitignore, environ, auth, out, scriptVars>>

test_connection_Request ==
    LocalSite_Request("LocalSiteClient.test_connection")

authenticate_basic_Request ==
    LocalSite_Request("LocalSiteClient.authenticate_basic")

\* leaving the with block; test_connection lines 117-128
test_connection_Return ==
    /\ pc = "return"
    /\ frame.fn = "LocalSiteClient.test_connection"
    /\ open' = ExitWith(frame.held)
    /\ result' =
         CASE frame.exc.type = "None" -> result
           [] frame.exc.type = "RequestError" ->
                ("success" :> FALSE) @@ ("error" :> <<"HTTP Error: ", frame.exc.msg>>)
                @@ ("error_type" :> "http")
           [] OTHER ->
                ("success" :> FALSE) @@ ("error" :> <<"Connection Error: ", frame.exc.msg>>)
                @@ ("error_type" :> "connection")
    /\ frame' = [frame EXCEPT !.held = <<>>]
    /\ pc' = "idle"
    /\ UNCHANGED <<client, raised, callNo, sent, lastReq, conn, server,
                   envFile, gitignore, environ, auth, out, scriptVars>>

\* leaving the with block; authenticate_basic lines 174-178
authenticate_basic_Return ==
    /\ pc = "return"
    /\ frame.fn = "LocalSiteClient.authenticate_basic"
    /\ open' = ExitWith(frame.held)
    /\ result' = IF frame.exc # NoExc
                 THEN ("success" :> FALSE) @@ ("error" :> frame.exc.msg)
                 ELSE result
    /\ frame' = [frame EXCEPT !.held = <<>>]
    /\ pc' = "idle"
    /\ UNCHANGED <<client, raised, callNo, sent, lastReq, conn, server,
                   envFile, gitignore, environ, auth, out, scriptVars>>

\* explore_common_paths, lines 187-197
common_paths == <<"/", "/login", "/admin", "/index.html", "/home",
                  "/dashboard", "/api", "/status", "/health">>

\* what the site answers on a path
SiteReply(path) ==
    CASE path \in {"/", "/index.html"} ->
           [status_code |-> 200, content_type |-> "text/html", len |-> 1001]
      [] path = "/login" ->
           [status_code |-> 401, content_type |-> "text/html", len |-> 0]
      [] path \in {"/api", "/status", "/api/v1/status"} ->
           [status_code |-> 200, content_type |-> "application/json", len |-> 0]
      [] OTHER ->
           [status_code |-> 404, content_type |-> None, len |-> 0]

\* a variant that keeps the failed path only
record_error_only(results, path, msg) == path :> ("error" :> msg)

\* results[path] = {'error': str(e)}
record_error(results, path, msg) == (path :> ("error" :> msg)) @@ results

\* lines 199-201
explore_common_paths_Call ==
    /\ StartCall
    /\ client.cls = "LocalSiteClient"
    /\ result' = EmptyDict
    /\ frame' = [NoFrame EXCEPT !.fn = "LocalSiteClient.explore_common_paths",
                                !.url = GoodUrl,
                                !.verify = create_client_verify(client), !.i = 1]
    /\ pc' = "explore_open"
    /\ UNCHANGED <<client, open, server, envFile, gitignore, environ, auth, out, scriptVars>>

\* lines 203-207 and 223-225: the next path, `with self.create_client()`
explore_common_paths_Open ==
    /\ pc = "explore_open"
    /\ frame.i <= Len(common_paths)
    /\ LET f == create_client(frame, callNo)
       IN IF f.exc = NoExc
          THEN /\ frame' = f
               /\ open' = open \cup {NewRes(frame, callNo)}
               /\ pc' = "explore_get"
               /\ UNCHANGED result
          ELSE /\ result' = record_error(result, common_paths[frame.i], f.exc.msg)
               /\ frame' = [frame EXCEPT !.i = @ + 1,
                                         !.failed = @ \cup {common_paths[frame.i]}]
               /\ pc' = "explore_open"
               /\ UNCHANGED open
    /\ UNCHANGED <<client, raised, callNo, sent, lastReq, conn, server,
                   envFile, gitignore, environ, auth, out, scriptVars>>

\* lines 208-225: client.get, the entry of the path, leaving the with block
explore_common_paths_Get ==
    /\ pc = "explore_get"
    /\ sent' = sent + 1
    /\ lastReq' = [res |-> frame.held[Len(frame.held)], call |-> callNo]
    /\ LET path == common_paths[frame.i]
           context == httpx_ssl_context(frame.verify)
       IN /\ conn' = [by |-> frame.fn, verify_mode |-> context.verify_mode,
                      roots |-> context.roots]
          /\ \/ /\ Handshake(context, server)
                /\ result' = (path :> [status_code |-> SiteReply(path).status_code,
                                       content_type |->
                                          IF SiteReply(path).content_type = None
                                          THEN "Unknown"
                                          ELSE SiteReply(path).content_type,
                                       content_length |-> SiteReply(path).len]) @@ result
                /\ frame' = [frame EXCEPT !.i = @ + 1, !.held = <<>>,
                                          !.requested = Append(@, path)]
             \/ /\ Handshake(context, server)
                /\ frame.faults < MaxFaults
                /\ result' = record_error(result, path, "ReadTimeout")
                /\ frame' = [frame EXCEPT !.i = @ + 1, !.held = <<>>, !.faults = @ + 1,
                                          !.requested = Append(@, path),
                                          !.failed = @ \cup {path}]
             \/ /\ ~Handshake(context, server)
                /\ result' = record_error(result, path, "CERTIFICATE_VERIFY_FAILED")
                /\ frame' = [frame EXCEPT !.i = @ + 1, !.held = <<>>,
                                          !.requested = Append(@, path),
                                          !.failed = @ \cup {path}]
    /\ open' = ExitWith(frame.held)
    /\ pc' = "explore_open"
    /\ UNCHANGED <<client, raised, callNo, server,
                   envFile, gitignore, environ, auth, out, scriptVars>>

\* line 227
explore_common_paths_Return ==
    /\ pc = "explore_open"
    /\ frame.i > Len(common_paths)
    /\ pc' = "idle"
    /\ UNCHANGED <<client, frame, result, raised, open, callNo, sent, lastReq, conn,
                   server, envFile, gitignore, environ, auth, out, scriptVars>>

----------------------------------------------------------------------------
(* The client classes: construction and calls, one operation at a time *)

\* constructor arguments for a credential: omitted, empty, given
CredArgs == {PyNone, <<>>, <<"a","l","i","c","e">>}

NoEnviron == EmptyDict

\* the client objects a script may build
Clients(file, env) ==
    {SelfSignedHTTPSClient(v, ca) : v \in BOOLEAN, ca \in CaPaths}
    \cup {HTTPSClient(v) : v \in BOOLEAN}
    \cup {LocalSiteClient(v, ca) : v \in BOOLEAN, ca \in CaPaths}
    \cup {IoTDeviceClient(u, u, v, file, env) : u \in CredArgs, v \in BOOLEAN}

NetInit(file, env) ==
    /\ client \in Clients(file, env)
    /\ pc = "idle"
    /\ frame = NoFrame
    /\ result = EmptyDict
    /\ raised = "None"
    /\ open = {}
    /\ callNo = 0
    /\ sent = 0
    /\ lastReq = NoReq
    /\ conn = NoConn
    /\ server \in Certs

InitNet ==
    /\ envFile = NoFile
    /\ gitignore = NoFile
    /\ environ = NoEnviron
    /\ NetInit(envFile, environ)
    /\ auth = NoAuth
    /\ out = "None"
    /\ ScriptInit

NextNet ==
    \/ \E h \in Hostnames : get_certificate_info_Connect(h)
    \/ get_certificate_info_Wrap
    \/ get_certificate_info_Return
    \/ \E m \in Methods, u \in Urls : SelfSigned_make_request_Begin(m, u)
    \/ SelfSigned_make_request_Request
    \/ SelfSigned_make_request_Return
    \/ \E h \in Hostnames : get_ssl_info_Call(h)
    \/ get_ssl_info_Connect
    \/ get_ssl_info_Wrap
    \/ get_ssl_info_Return
    \/ \E m \in Methods, u \in Urls, b \in BOOLEAN : HTTPSClient_make_request_Begin(m, u, b)
    \/ HTTPSClient_make_request_Client
    \/ HTTPSClient_make_request_Request
    \/ HTTPSClient_make_request_Return
    \/ \E e \in Endpoints, m \in Methods : IoT_make_request_Begin(e, m)
    \/ IoT_make_request_Request
    \/ IoT_make_request_Return
    \/ test_connection_Begin
    \/ test_connection_Request
    \/ test_connection_Return
    \/ authenticate_basic_Begin
    \/ authenticate_basic_Request
    \/ authenticate_basic_Return
    \/ explore_common_paths_Call
    \/ explore_common_paths_Open
    \/ explore_common_paths_Get
    \/ explore_common_paths_Return

SpecNet == InitNet /\ [][NextNet]_vars

----------------------------------------------------------------------------
(* Properties of the client classes, checked under SpecNet *)

RequestFns == {"SelfSignedHTTPSClient.make_request", "HTTPSClient.make_request",
               "IoTDeviceClient._make_request"}

MakeRequestFns == {"SelfSignedHTTPSClient.make_request", "HTTPSClient.make_request"}

\* the request of the call failed: transport error or error status
RequestFailed ==
    \/ frame.exc.type \in {"RequestError", "HTTPStatusError"}
    \/ frame.response.status_code >= 400

\* C1: one call of make_request / _make_request sends at most one HTTP request,
\* and a call whose request failed has returned the failure after that one attempt.
C1_NoRetry ==
    frame.fn \in RequestFns =>
        /\ sent <= 1
        /\ (pc = "idle" /\ RequestFailed) => (sent = 1 /\ result["success"] = FALSE)

C1_Witness ==
    /\ pc = "idle"
    /\ frame.fn \in RequestFns
    /\ frame.exc.type = "RequestError"
    /\ sent = 1
    /\ result["success"] = FALSE

\* C2: between operations no HTTP client or socket is open, every open client or
\* socket was opened by the running call, and a request goes out on a client
\* that the same call opened.
C2_ShortLived ==
    /\ pc = "idle" => open = {}
    /\ \A r \in open : r[1] = callNo
    /\ lastReq # NoReq => (lastReq.res[1] = lastReq.call /\ lastReq.call = callNo)

\* a second call has returned on an error path after it had opened a resource
C2_Witness ==
    /\ pc = "idle"
    /\ callNo >= 2
    /\ frame.n >= 1
    /\ frame.exc # NoExc
    /\ open = {}

\* C3: is_self_signed is True exactly when the presented certificate's issuer
\* equals its subject.
C3_SelfSignedIffIssuerIsSubject ==
    (/\ pc = "idle"
     /\ frame.fn = "SelfSignedHTTPSClient.get_certificate_info"
     /\ "is_self_signed" \in DOMAIN result)
    => (result["is_self_signed"] <=> (server.issuer = server.subject))

\* C4: make_request returns, never raises; a failure is a dictionary with url,
\* the upper-cased method, success False and an error, and it carries status_code
\* exactly when a response was received and its status was the failure.
C4_NoPropagation ==
    (pc = "idle" /\ frame.fn \in MakeRequestFns) =>
        /\ raised = "None"
        /\ result["success"] = FALSE =>
             /\ "error" \in DOMAIN result
             /\ result["url"] = frame.url
             /\ lower(result["method"]) = lower(frame.method)
             /\ \A i \in 1..Len(result["method"]) :
                    \A k \in 1..26 : result["method"][i] # LowerChars[k]
             /\ ("status_code" \in DOMAIN result) <=> (frame.response # NoResponse)

\* an exception that is neither a status error nor a request error was returned
\* as a failure dictionary for a lower-case method
C4_Witness ==
    /\ pc = "idle"
    /\ frame.fn = "SelfSignedHTTPSClient.make_request"
    /\ frame.exc.type = "Exception"
    /\ frame.method = <<"g","e","t">>
    /\ raised = "None"
    /\ "error" \in DOMAIN result

\* C5: a SelfSignedHTTPSClient built with verify_ssl=False never verifies the
\* server certificate, whatever ca_cert_path is.
C5_VerifyFalseNeverVerifies ==
    (/\ client.cls = "SelfSignedHTTPSClient"
     /\ ~client.verify_ssl
     /\ conn # NoConn)
    => conn.verify_mode = "CERT_NONE"

\* C6: a SelfSignedHTTPSClient built with ca_cert_path naming an existing
\* certificate file verifies every connection against that file.
C6_CaFileIsTrustRoot ==
    (/\ client.cls = "SelfSignedHTTPSClient"
     /\ client.ca_cert_path # None
     /\ exists(client.ca_cert_path) /\ LoadablePEM(client.ca_cert_path)
     /\ conn # NoConn)
    => (conn.verify_mode = "CERT_REQUIRED" /\ client.ca_cert_path \in conn.roots)

----------------------------------------------------------------------------
(* config_credentials.py: create_env_file *)

\* the fixed parts of env_content, lines 45-55
EnvHeader ==
    <<"#"," ","H","T","T","P","S"," ","C","l","i","e","n","t"," ","E","n","v",
    "i","r","o","n","m","e","n","t"," ","V","a","r","i","a","b","l","e","s",
    "\n","#"," ","G","e","n","e","r","a","t","e","d"," ","a","u","t","o",
    "m","a","t","i","c","a","l","l","y"," ","-"," ","d","o"," ","n","o","t",
    " ","c","o","m","m","i","t"," ","t","o"," ","g","i","t","!","\n","\n",
    "#"," ","D","e","v","i","c","e"," ","c","o","n","n","e","c","t","i","o",
    "n"," ","d","e","t","a","i","l","s","\n">>

EnvFooter ==
    <<"\n","#"," ","O","p","t","i","o","n","a","l",":"," ","E","n","a","b",
    "l","e"," ","d","e","b","u","g"," ","l","o","g","g","i","n","g","\n",
    "#"," ","D","E","B","U","G","=","t","r","u","e","\n">>

DefaultDeviceIp == <<"1","9","2",".","1","6","8",".","0",".","1","1","3">>

\* a variant that writes the values in double quotes
env_content_quoted(device_ip, username, password) ==
    EnvHeader \o DEVICE_IP \o <<"=", "\"">> \o device_ip \o <<"\"", "\n">>
    \o DEVICE_USERNAME \o <<"=", "\"">> \o username \o <<"\"", "\n">>
    \o DEVICE_PASSWORD \o <<"=", "\"">> \o password \o <<"\"", "\n">>
    \o EnvFooter

\* lines 45-55: the f-string
env_content(device_ip, username, password) ==
    EnvHeader \o DEVICE_IP \o <<"=">> \o device_ip \o <<"\n">>
    \o DEVICE_USERNAME \o <<"=">> \o username \o <<"\n">>
    \o DEVICE_PASSWORD \o <<"=">> \o password \o <<"\n">>
    \o EnvFooter

DotEnv == <<".","e","n","v">>

GitignoreAppend == <<"\n","#"," ","E","n","v","i","r","o","n","m","e","n","t"," ","v","a",
    "r","i","a","b","l","e","s","\n",".","e","n","v","\n">>

GitignoreNew == <<"#"," ","E","n","v","i","r","o","n","m","e","n","t"," ","v","a","r","i",
    "a","b","l","e","s","\n",".","e","n","v","\n">>

\* a variant that looks for a line equal to .env instead of the substring
gitignore_after_by_line(file) ==
    IF file.exists
    THEN IF ~(\E k \in 1..Len(Lines(file.text)) : Lines(file.text)[k] = DotEnv)
         THEN File(file.text \o GitignoreAppend)
         ELSE file
    ELSE File(GitignoreNew)

\* lines 66-76: .gitignore after .env was written
gitignore_after(file) ==
    IF file.exists
    THEN IF ~Contains(file.text, DotEnv)
         THEN File(file.text \o GitignoreAppend)
         ELSE file
    ELSE File(GitignoreNew)

\* a variant that overwrites unless the answer is a no
overwrite_confirmed_unless_no(answer) ==
    lower(strip(answer)) \notin { <<"n">>, <<"n","o">> }

\* lines 19-20: the answer to the overwrite prompt, stripped and lower-cased
overwrite_confirmed(answer) ==
    lower(strip(answer)) \in { <<"y">>, <<"y","e","s">> }

NoOut == [status |-> "None", answer |-> <<>>, device_ip |-> <<>>,
          username |-> <<>>, password |-> <<>>]

\* create_env_file with the lines the user types at the prompts; `writable`
\* is whether open(".env", "w") succeeds.  out records the run.
create_env_file(answer, device_ip_in, username_in, password_in, writable) ==
    /\ pc = "idle"
    /\ LET device_ip == IF strip(device_ip_in) = <<>> THEN DefaultDeviceIp
                        ELSE strip(device_ip_in)
           username == strip(username_in)
           password == strip(password_in)
           run(status) == [status |-> status,
                           answer |-> IF envFile.exists THEN answer ELSE <<>>,
                           device_ip |-> device_ip_in,
                           username |-> username_in, password |-> password_in]
       IN IF envFile.exists /\ ~overwrite_confirmed(answer)
          THEN /\ out' = [NoOut EXCEPT !.status = "kept", !.answer = answer]
               /\ UNCHANGED fileVars
          ELSE IF username = <<>>
          THEN /\ out' = [run("username required") EXCEPT !.password = <<>>]
               /\ UNCHANGED fileVars
          ELSE IF password = <<>>
          THEN /\ out' = run("password required")
               /\ UNCHANGED fileVars
          ELSE IF ~writable
          THEN /\ out' = run("error")
               /\ UNCHANGED fileVars
          ELSE /\ envFile' = File(env_content(device_ip, username, password))
               /\ gitignore' = gitignore_after(gitignore)
               /\ out' = run("created")
    /\ UNCHANGED <<netVars, environ, auth, scriptVars>>

----------------------------------------------------------------------------
(* Credential resolution of the device scripts *)

\* .env as create_env_file writes it
GeneratedEnv == File(env_content(DefaultDeviceIp, <<"a","d","m","i","n">>, <<"s","3","c","r","e","t">>))

\* .env edited by hand
HandEditedEnv ==
    File(<<"#"," ","m","y"," ","d","e","v","i","c","e","\n","D","E","V","I","C",
    "E","_","U","S","E","R","N","A","M","E"," ","="," ","b","o","b","\n",
    " "," ","#"," ","i","n","d","e","n","t","e","d"," ","c","o","m","m","e",
    "n","t","\n","D","E","V","I","C","E","_","P","A","S","S","W","O","R",
    "D","=","p","=","w","#","1","\n","n","o","t"," ","a"," ","p","a","i",
    "r","\n">>)

\* .env with the values left empty
BlankEnv ==
    File(<<"D","E","V","I","C","E","_","U","S","E","R","N","A","M","E","=","\n",
    "D","E","V","I","C","E","_","P","A","S","S","W","O","R","D","=","\n">>)

\* .env that names the user only
UserOnlyEnv ==
    File(<<"D","E","V","I","C","E","_","U","S","E","R","N","A","M","E","=","b","o",
    "b","\n">>)

EnvFiles == {NoFile, GeneratedEnv, HandEditedEnv, BlankEnv, UserOnlyEnv}

Environs ==
    { NoEnviron,
      (DEVICE_USERNAME :> <<"c","a","r","o","l">>) @@ (DEVICE_PASSWORD :> <<"e","n","v","p","w">>),
      (DEVICE_USERNAME :> <<>>) @@ (DEVICE_PASSWORD :> <<>>),
      (DEVICE_PASSWORD :> <<"e","n","v","p","w">>) }

InitCred ==
    /\ envFile \in EnvFiles
    /\ gitignore = NoFile
    /\ environ \in Environs
    /\ client = SelfSignedHTTPSClient(FALSE, None)
    /\ pc = "idle"
    /\ frame = NoFrame
    /\ result = EmptyDict
    /\ raised = "None"
    /\ open = {}
    /\ callNo = 0
    /\ sent = 0
    /\ lastReq = NoReq
    /\ conn = NoConn
    /\ server = DeviceCert
    /\ auth = NoAuth
    /\ out = NoOut
    /\ ScriptInit

NextCred ==
    \/ \E u \in CredArgs, p \in CredArgs, v \in BOOLEAN : IoTDeviceClient__init__(u, p, v)
    \/ api_test_credentials
    \/ local_site_access_credentials
    \/ iot_client_credentials

SpecCred == InitCred /\ [][NextCred]_vars

DeviceScripts == {"api_test", "iot_client", "local_site_access"}

\* C7: with a .env that defines DEVICE_USERNAME and DEVICE_PASSWORD and neither
\* variable in the process environment, every device script authenticates with
\* the values of .env.
C7_EnvFileCredentials ==
    LET values == load_env_file(envFile)
    IN (/\ auth.script \in DeviceScripts
        /\ envFile.exists
        /\ DEVICE_USERNAME \in DOMAIN values /\ DEVICE_PASSWORD \in DOMAIN values
        /\ values[DEVICE_USERNAME] # <<>> /\ values[DEVICE_PASSWORD] # <<>>
        /\ DEVICE_USERNAME \notin DOMAIN environ
        /\ DEVICE_PASSWORD \notin DOMAIN environ)
       => (/\ auth.username = values[DEVICE_USERNAME]
           /\ auth.password = values[DEVICE_PASSWORD])

\* the credential the stated precedence selects
ByPrecedence(arg, name, placeholder) ==
    LET values == load_env_file(envFile)
    IN IF arg # PyNone /\ Len(arg) > 0 THEN arg
       ELSE IF name \in DOMAIN values /\ Len(values[name]) > 0 THEN values[name]
       ELSE IF name \in DOMAIN environ THEN environ[name]
       ELSE placeholder

\* C8: IoTDeviceClient takes each credential from the non-empty argument, else
\* the non-empty .env value, else the process environment variable, else the
\* placeholder; the resolved credentials are never None.
C8_CredentialPrecedence ==
    client.cls = "IoTDeviceClient" =>
        /\ client.username = ByPrecedence(client.args[1], DEVICE_USERNAME, your_username)
        /\ client.password = ByPrecedence(client.args[2], DEVICE_PASSWORD, your_password)
        /\ client.username # PyNone
        /\ client.password # PyNone

\* no arguments: the password, absent from .env, is the environment variable,
\* and the user name is the value of .env
C8_Witness ==
    /\ client.cls = "IoTDeviceClient"
    /\ client.args = <<PyNone, PyNone>>
    /\ DEVICE_PASSWORD \notin DOMAIN load_env_file(envFile)
    /\ DEVICE_USERNAME \in DOMAIN load_env_file(envFile)
    /\ DEVICE_PASSWORD \in DOMAIN environ
    /\ client.password = environ[DEVICE_PASSWORD]
    /\ client.username = load_env_file(envFile)[DEVICE_USERNAME]

----------------------------------------------------------------------------
(* The .env helper *)

GitignoreFiles ==
    { NoFile,
      File(<<"*",".","p","y","c","\n">>),
      File(<<".","e","n","v","\n">>),
      File(<<".","e","n","v",".","e","x","a","m","p","l","e","\n">>),
      File(<<"_","_","p","y","c","a","c","h","e","_","_","/","\n","#"," ","k","e",
    "e","p"," ",".","e","n","v"," ","f","i","l","e","s"," ","o","u","t">>) }

Answers == { <<>>, <<"y">>, <<" ","Y","E","S"," ">>, <<"n">>, <<"y","e","p">> }

IpInputs == { <<>>, <<"1","0",".","0",".","0",".","5">> }

UserInputs == { <<>>, <<" "," ">>, <<"a","d","m","i","n">>, <<" ","r","o","o","t"," ">> }

PasswordInputs == { <<>>, <<" ">>, <<"s","3","=","c","#","t">>, <<"p","a","s","s"," ","w","o","r","d"," ">>,
                    <<"#","h"," ","=","1">> }

InitEnvFile ==
    /\ envFile \in {NoFile, GeneratedEnv, HandEditedEnv}
    /\ gitignore \in GitignoreFiles
    /\ environ = NoEnviron
    /\ client = SelfSignedHTTPSClient(FALSE, None)
    /\ pc = "idle"
    /\ frame = NoFrame
    /\ result = EmptyDict
    /\ raised = "None"
    /\ open = {}
    /\ callNo = 0
    /\ sent = 0
    /\ lastReq = NoReq
    /\ conn = NoConn
    /\ server = DeviceCert
    /\ auth = NoAuth
    /\ out = NoOut
    /\ ScriptInit

NextEnvFile ==
    \E a \in Answers, ip \in IpInputs, u \in UserInputs, p \in PasswordInputs,
       w \in BOOLEAN : create_env_file(a, ip, u, p, w)

SpecEnvFile == InitEnvFile /\ [][NextEnvFile]_vars

\* git ignores .env under the rules of the text: the last rule that names .env
\* decides, a rule that starts with ! re-includes, a line that starts with # is
\* a comment
RECURSIVE GitIgnoresEnvLines(_, _)
GitIgnoresEnvLines(lines, ignored) ==
    IF lines = <<>> THEN ignored
    ELSE LET rule == rstrip(lines[1])
         IN GitIgnoresEnvLines(Tail(lines),
               IF rule \in {DotEnv, <<"/">> \o DotEnv} THEN TRUE
               ELSE IF rule = <<"!">> \o DotEnv THEN FALSE
               ELSE ignored)

GitIgnoresEnv(file) == file.exists /\ GitIgnoresEnvLines(Lines(file.text), FALSE)

\* C9: once create_env_file has written .env, .gitignore exists and makes git
\* ignore .env.
C9_EnvIsGitIgnored ==
    out.status = "created" => GitIgnoresEnv(gitignore)

\* C10: a run of create_env_file leaves an existing .env as it is unless the
\* answer to the overwrite prompt is y or yes, and writes neither .env nor
\* .gitignore when the user name or the password entered is empty.
C10_KeepsAndRequires ==
    [][ /\ (envFile.exists /\ lower(strip(out'.answer)) \notin { <<"y">>, <<"y","e","s">> })
            => (envFile' = envFile /\ gitignore' = gitignore)
        /\ (strip(out'.username) = <<>> \/ strip(out'.password) = <<>>)
            => (envFile' = envFile /\ gitignore' = gitignore) ]_vars

\* an existing .env survived a run that was answered with something else than yes
C10_Witness ==
    /\ out.status = "kept"
    /\ out.answer = <<"y","e","p">>
    /\ envFile = HandEditedEnv

----------------------------------------------------------------------------
(* Results of IoTDeviceClient._make_request, checked under SpecNet *)

\* C11: a result of IoTDeviceClient._make_request with success False has an
\* 'error' entry, also when the device answered with a status of 400 or above.
C11_FailureHasError ==
    (/\ pc = "idle"
     /\ frame.fn = "IoTDeviceClient._make_request"
     /\ "success" \in DOMAIN result
     /\ result["success"] = FALSE)
    => "error" \in DOMAIN result

----------------------------------------------------------------------------
(* iot_client.py: get_status and monitor_device *)

\* get_status, lines 118-121: the dictionaries _make_request("/api/v1/status")
\* can return to its caller
get_status_results(self) ==
    LET f == [NoFrame EXCEPT !.fn = "IoTDeviceClient._make_request",
                             !.method = <<"G","E","T">>, !.url = GoodUrl,
                             !.endpoint = "/api/v1/status",
                             !.verify = BoolStr(self.verify_ssl)]
        url == <<f.url, f.endpoint>>
    IN { IF x[1] # NoExc
         THEN ("success" :> FALSE) @@ ("error" :> x[1].msg) @@ ("url" :> url)
         ELSE IoT_result(x[2], url, json_ok) :
           x \in Exchange(f), json_ok \in BOOLEAN }

\* lines 183-189: the line printed for a check; "KeyError" where result['data']
\* or a key of data is missing (`complete`: the JSON object has the keys read)
check_line(checks, res, complete) ==
    IF res["success"]
    THEN IF "data" \in DOMAIN res /\ complete
         THEN <<"Check", checks, "status">>
         ELSE "KeyError"
    ELSE <<"Check", checks, "ERROR", Get(res, "error", "Unknown")>>

\* line 177: time.time() - start_time < duration_seconds
monitor_continues(f, t) == t - f.start_time < f.duration

\* lines 169-175: the header, start_time = time.time(), checks = 0; a run of the
\* script monitors once (main, line 258)
monitor_device_Call(duration_seconds, interval_seconds) ==
    /\ StartScript
    /\ sent' = 0
    /\ UNCHANGED <<raised, lastReq, conn>>
    /\ client.cls = "IoTDeviceClient"
    /\ frame' = [NoFrame EXCEPT !.fn = "IoTDeviceClient.monitor_device",
                                !.duration = duration_seconds,
                                !.interval = interval_seconds,
                                !.start_time = now]
    /\ stdout' = << <<"Monitoring device for", duration_seconds, interval_seconds>> >>
    /\ result' = EmptyDict
    /\ pc' = "monitor_loop"
    /\ UNCHANGED <<client, open, server, envFile, gitignore, environ, auth, out,
                   now, project>>

\* lines 177-189: the loop test holds; checks += 1, get_status, the printed line
monitor_device_Check ==
    /\ pc = "monitor_loop"
    /\ frame.fn = "IoTDeviceClient.monitor_device"
    /\ monitor_continues(frame, now)
    /\ \E res \in get_status_results(client), elapsed \in 0..MaxElapsed,
          complete \in BOOLEAN :
         LET line == check_line(frame.checks + 1, res, complete)
         IN /\ result' = res
            /\ now' = now + elapsed
            /\ sent' = sent + (IF "status_code" \in DOMAIN res THEN 1 ELSE 0)
            /\ frame' = [frame EXCEPT !.checks = @ + 1]
            /\ IF line = "KeyError"
               THEN /\ raised' = "KeyError"
                    /\ pc' = "idle"
                    /\ UNCHANGED stdout
               ELSE /\ stdout' = Append(stdout, line)
                    /\ pc' = "monitor_sleep"
                    /\ UNCHANGED raised
    /\ UNCHANGED <<client, open, callNo, lastReq, conn, server,
                   envFile, gitignore, environ, auth, out, project>>

\* line 191: time.sleep(interval_seconds) returns after the interval or later
monitor_device_Sleep ==
    /\ pc = "monitor_sleep"
    /\ \E late \in 0..MaxLate : now' = now + frame.interval + late
    /\ frame' = [frame EXCEPT !.sleeps = @ + 1]
    /\ pc' = "monitor_loop"
    /\ UNCHANGED <<client, result, raised, open, callNo, sent, lastReq, conn, server,
                   envFile, gitignore, environ, auth, out, stdout, project>>

\* lines 177 and 193: the loop test fails; the completion line
monitor_device_Return ==
    /\ pc = "monitor_loop"
    /\ frame.fn = "IoTDeviceClient.monitor_device"
    /\ ~monitor_continues(frame, now)
    /\ stdout' = Append(stdout, <<"Monitoring completed", frame.checks>>)
    /\ pc' = "idle"
    /\ UNCHANGED <<client, frame, result, raised, open, callNo, sent, lastReq, conn,
                   server, envFile, gitignore, environ, auth, out, now, project>>

\* duration_seconds and interval_seconds of a call
Durations == {0, 1, 3, 4}
Intervals == {1, 2}

\* IoTDeviceClient() as main builds it, in a directory without .env, and a device
InitMonitor ==
    /\ envFile = NoFile
    /\ gitignore = NoFile
    /\ environ = NoEnviron
    /\ client \in {IoTDeviceClient(PyNone, PyNone, v, envFile, environ) : v \in BOOLEAN}
    /\ pc = "idle"
    /\ frame = NoFrame
    /\ result = EmptyDict
    /\ raised = "None"
    /\ open = {}
    /\ callNo = 0
    /\ sent = 0
    /\ lastReq = NoReq
    /\ conn = NoConn
    /\ server \in {DeviceCert, UntrustedCert}
    /\ auth = NoAuth
    /\ out = NoOut
    /\ ScriptInit

NextMonitor ==
    \/ \E d \in Durations, i \in Intervals : monitor_device_Call(d, i)
    \/ monitor_device_Check
    \/ monitor_device_Sleep
    \/ monitor_device_Return

SpecMonitor == InitMonitor /\ [][NextMonitor]_vars

\* ceil(d / i) for i > 0
CeilDiv(d, i) == (d + i - 1) \div i

\* C12: when monitor_device is over it has made no check for a duration of 0, at
\* least one for a positive duration and never more than ceil(D / I); each check
\* was followed by a sleep, and the last line printed is the completion line
\* with the number of checks.
C12_MonitorCompletes ==
    (pc = "idle" /\ frame.fn = "IoTDeviceClient.monitor_device") =>
        /\ raised = "None"
        /\ (frame.duration = 0) => (frame.checks = 0)
        /\ (frame.duration > 0) => (frame.checks >= 1)
        /\ frame.checks <= CeilDiv(frame.duration, frame.interval)
        /\ frame.sleeps = frame.checks
        /\ stdout[Len(stdout)] = <<"Monitoring completed", frame.checks>>

----------------------------------------------------------------------------
(* deployment_check.py *)

\* check_required_files, lines 72-78, without .gitignore (the variable gitignore)
RequiredFiles == {"README.md", "LICENSE", "pyproject.toml", ".env.example"}

\* *.py files of the project directory: whether compile() accepts the file and
\* the credential literals its text contains.  security_update_summary.py
\* prints the former credentials (lines 88-89 and 101).
SecuritySummaryPy ==
    [name |-> "security_update_summary.py", compiles |-> TRUE,
     literals |-> {"root", "gAbqef-wujpag-cifsi4"}]

ApiTestPy == [name |-> "api_test.py", compiles |-> TRUE, literals |-> {}]

BrokenPy == [name |-> "draft.py", compiles |-> FALSE, literals |-> {}]

SourceFiles == {SecuritySummaryPy, ApiTestPy, BrokenPy}

\* check_git_status, lines 14-33: False without .git or when git cannot be run
check_git_status(p) ==
    CASE p.git = "missing" -> [ok |-> FALSE, lines |-> <<"Not a git repository">>]
      [] p.git = "error"   -> [ok |-> FALSE, lines |-> <<"Git check failed">>]
      [] p.git = "dirty"   -> [ok |-> TRUE,  lines |-> <<"Uncommitted changes found:">>]
      [] OTHER             -> [ok |-> TRUE,  lines |-> <<"Working directory clean">>]

\* check_sensitive_files, lines 41-65
check_sensitive_files(env, ignore) ==
    LET issues ==
           (IF env.exists THEN <<".env file exists (should be local only)">> ELSE <<>>)
           \o (IF ignore.exists
               THEN IF Contains(ignore.text, DotEnv) THEN <<>>
                    ELSE <<".env not found in .gitignore">>
               ELSE <<".gitignore file missing">>)
    IN [ok |-> issues = <<>>,
        lines |-> (IF ignore.exists /\ Contains(ignore.text, DotEnv)
                   THEN <<".env is properly git-ignored">> ELSE <<>>)
                  \o (IF issues # <<>> THEN <<"Issues found:">> \o issues
                      ELSE <<"No sensitive files will be committed">>)]

\* check_required_files, lines 80-88
check_required_files(p, ignore) ==
    [ok |-> RequiredFiles \subseteq p.files /\ ignore.exists,
     lines |-> <<"Checking Required Files...">>]

\* check_python_files, lines 95-108: compile() of every *.py file
check_python_files(p) ==
    [ok |-> \A f \in p.sources : f.compiles,
     lines |-> <<"Checking Python Files...">>]

\* main, lines 153-161
deployment_check_main_Begin ==
    /\ StartCall
    /\ frame' = [NoFrame EXCEPT !.fn = "deployment_check.main"]
    /\ result' = ("all_passed" :> TRUE)
    /\ stdout' = <<"GitHub Deployment Readiness Check">>
    /\ pc' = "check_git_status"
    /\ UNCHANGED <<client, open, server, envFile, gitignore, environ, auth, out,
                   now, project>>

\* main, lines 164-170: one check of the list; all_passed becomes False when the
\* check returns False
deployment_check_step(at, check, next) ==
    /\ pc = at
    /\ frame.fn = "deployment_check.main"
    /\ result' = ("all_passed" :> (result["all_passed"] /\ check.ok))
    /\ stdout' = stdout \o check.lines
    /\ pc' = next
    /\ UNCHANGED <<client, frame, raised, open, callNo, sent, lastReq, conn, server,
                   envFile, gitignore, environ, auth, out, now, project>>

deployment_check_git_status ==
    deployment_check_step("check_git_status", check_git_status(project),
                          "check_sensitive_files")

deployment_check_sensitive_files ==
    deployment_check_step("check_sensitive_files",
                          check_sensitive_files(envFile, gitignore),
                          "check_required_files")

deployment_check_required_files ==
    deployment_check_step("check_required_files",
                          check_required_files(project, gitignore),
                          "check_python_files")

deployment_check_python_files ==
    deployment_check_step("check_python_files", check_python_files(project), "verdict")

AllChecksPassed == "ALL CHECKS PASSED - Ready for GitHub!"

\* show_deployment_summary, lines 124-128
SecuritySummary == <<"Credentials obfuscated (environment variables)",
                     ".env file git-ignored",
                     ".env.example template provided",
                     "No hardcoded secrets in source code">>

\* main, lines 172-179
deployment_check_main_Return ==
    /\ pc = "verdict"
    /\ frame.fn = "deployment_check.main"
    /\ stdout' = IF result["all_passed"]
                 THEN stdout \o <<AllChecksPassed>> \o SecuritySummary
                 ELSE Append(stdout, "Some checks failed - Fix issues before deploying")
    /\ pc' = "idle"
    /\ UNCHANGED <<client, frame, result, raised, open, callNo, sent, lastReq, conn,
                   server, envFile, gitignore, environ, auth, out, now, project>>

\* the project directories the check is run in
InitDeploy ==
    /\ envFile \in {NoFile, GeneratedEnv}
    /\ gitignore \in GitignoreFiles
    /\ environ = NoEnviron
    /\ client = SelfSignedHTTPSClient(FALSE, None)
    /\ pc = "idle"
    /\ frame = NoFrame
    /\ result = EmptyDict
    /\ raised = "None"
    /\ open = {}
    /\ callNo = 0
    /\ sent = 0
    /\ lastReq = NoReq
    /\ conn = NoConn
    /\ server = DeviceCert
    /\ auth = NoAuth
    /\ out = NoOut
    /\ now = 0
    /\ stdout = <<>>
    /\ project \in [git : {"missing", "error", "dirty", "clean"},
                    files : {RequiredFiles, RequiredFiles \ {"LICENSE"}, {}},
                    sources : SUBSET SourceFiles]

NextDeploy ==
    \/ deployment_check_main_Begin
    \/ deployment_check_git_status
    \/ deployment_check_sensitive_files
    \/ deployment_check_required_files
    \/ deployment_check_python_files
    \/ deployment_check_main_Return

SpecDeploy == InitDeploy /\ [][NextDeploy]_vars

\* C13: deployment_check.main prints ALL CHECKS PASSED (and the summary line
\* 'No hardcoded secrets in source code') only when no source file of the
\* project contains a hardcoded credential literal.
C13_PassedMeansNoSecrets ==
    (/\ pc = "idle"
     /\ frame.fn = "deployment_check.main"
     /\ \E k \in 1..Len(stdout) : stdout[k] = AllChecksPassed)
    => \A f \in project.sources : f.literals = {}

----------------------------------------------------------------------------
(* Results of the two make_request methods, checked under SpecNet *)

\* the fields print_response_info and test_local_site read after success
SuccessOnlyFields == {"status_code", "reason_phrase", "content_type",
                      "content_length", "elapsed_time", "content"}

\* C14: a dictionary returned by make_request has success True exactly when it
\* has no 'error' key; success True means a response was received and
\* raise_for_status accepted it, and then the success-only fields are present.
C14_SuccessIffNoError ==
    (pc = "idle" /\ frame.fn \in MakeRequestFns) =>
        /\ result["success"] <=> ("error" \notin DOMAIN result)
        /\ result["success"] =>
             /\ frame.response # NoResponse
             /\ frame.exc = NoExc
             /\ FALSE \in raise_for_status(frame.response)
             /\ SuccessOnlyFields \subseteq DOMAIN result

\* HTTPSClient.make_request succeeded although get_ssl_info had failed: the
\* error inside ssl_info is not an error of the result
C14_Witness ==
    /\ pc = "idle"
    /\ frame.fn = "HTTPSClient.make_request"
    /\ result["success"] = TRUE
    /\ "ssl_info" \in DOMAIN result
    /\ "error" \in DOMAIN result["ssl_info"]
    /\ "error" \notin DOMAIN result

----------------------------------------------------------------------------
(* Loading .env: iot_client.load_env_file, api_test.load_env_file and the loop
   inside config_credentials.test_credentials *)

\* lines a .env may hold: blank, comments, indented comments, text without '=',
\* pairs with and without spaces, values with '=' and '#', an empty value, an
\* empty key
BlankLine == <<>>
SpacesLine == <<" "," ">>
CommentLine == <<"#"," ","n","o","t","e">>
IndentedCommentLine == <<" "," ","#"," ","n","o","t","e">>
IndentedCommentedPairLine == <<" "," ","#"," ","D","E","V","I","C","E","_","I","P","=","1">>
NoPairLine == <<"n","o","t"," ","a"," ","p","a","i","r">>
UserLine == <<"D","E","V","I","C","E","_","U","S","E","R","N","A","M","E","=","a","d",
    "m","i","n">>
SpacedUserLine == <<"D","E","V","I","C","E","_","U","S","E","R","N","A","M","E"," ","="," ",
    "b","o","b"," ">>
PasswordLine == <<"D","E","V","I","C","E","_","P","A","S","S","W","O","R","D","=","p","=",
    "w","#","1">>
OtherPasswordLine == <<"D","E","V","I","C","E","_","P","A","S","S","W","O","R","D","=","s","3",
    "c","r","e","t">>
IpLine == <<"D","E","V","I","C","E","_","I","P","=","1","0",".","0",".","0",".","5">>
EmptyValueLine == <<"D","E","V","I","C","E","_","I","P","=">>
EmptyKeyLine == <<"=","o","r","p","h","a","n">>

EnvLines == {BlankLine, SpacesLine, CommentLine, IndentedCommentLine, IndentedCommentedPairLine,
             NoPairLine, UserLine, SpacedUserLine, PasswordLine,
             OtherPasswordLine, IpLine, EmptyValueLine, EmptyKeyLine}

\* lines of one .env file
MaxLines == 2

\* the text of a file with the given lines, each ended by a newline
RECURSIVE JoinLines(_)
JoinLines(ls) == IF ls = <<>> THEN <<>> ELSE ls[1] \o <<"\n">> \o JoinLines(Tail(ls))

\* no .env, or one of up to MaxLines lines
LoadFiles ==
    {NoFile} \cup {File(JoinLines(ls)) : ls \in UNION {[1..k -> EnvLines] : k \in 0..MaxLines}}

\* iot_client.load_env_file(): the returned dictionary and the warning printed
\* for a missing file
iot_client_load_env_file ==
    /\ StartScript
    /\ UNCHANGED <<sent, raised, lastReq, conn>>
    /\ frame' = [NoFrame EXCEPT !.fn = "iot_client.load_env_file"]
    /\ result' = load_env_file(envFile)
    /\ stdout' = IF envFile.exists THEN <<>> ELSE <<"Warning: .env file not found">>
    /\ pc' = "idle"
    /\ UNCHANGED <<client, open, server, envFile, gitignore, environ, auth, out,
                   now, project>>

\* api_test.load_env_file() at import, line 27: os.environ afterwards
api_test_import ==
    /\ StartScript
    /\ LET loaded == api_test_load_env_file(envFile, environ)
       IN /\ environ' = loaded.environ
          /\ raised' = loaded.raised
    /\ frame' = [NoFrame EXCEPT !.fn = "api_test.load_env_file", !.value = environ]
    /\ stdout' = <<>>
    /\ UNCHANGED <<client, pc, result, open, sent, lastReq, conn, server,
                   envFile, gitignore, auth, out, now, project>>

\* '*' * n
Stars(n) == [i \in 1..n |-> "*"]

\* a variant that shows the password
masked_plain(password) == password

\* '*' * len(password)
masked(password) == Stars(Len(password))

\* what one client.get of a script that does not verify certificates can bring:
\* an exception or a response, whose body parses as the expected JSON or not
ScriptReplies ==
    {[exc |-> x[1], response |-> x[2], json_ok |-> j] :
        x \in Exchange([NoFrame EXCEPT !.url = GoodUrl, !.verify = "False"]),
        j \in BOOLEAN}

\* config_credentials.test_credentials, lines 92-95: the loop over the lines of
\* .env; the value is os.environ afterwards and the exception that ended the loop
RECURSIVE test_credentials_load_lines(_, _)
test_credentials_load_lines(lines, env) ==
    IF lines = <<>> THEN [environ |-> env, raised |-> "None"]
    ELSE LET line == lines[1]
         IN IF strip(line) # <<>> /\ ~startswith(line, <<"#">>)
            THEN IF ~Contains(strip(line), <<"=">>)
                 THEN [environ |-> env, raised |-> "ValueError"]
                 ELSE LET kv == split1(strip(line), "=")
                      IN IF environ_setitem_raises(kv[1])
                         THEN [environ |-> env, raised |-> "OSError"]
                         ELSE test_credentials_load_lines(Tail(lines),
                                                          (kv[1] :> kv[2]) @@ env)
            ELSE test_credentials_load_lines(Tail(lines), env)

\* lines 88-95
test_credentials_load(file, env) ==
    IF file.exists THEN test_credentials_load_lines(Lines(file.text), env)
    ELSE [environ |-> env, raised |-> "None"]

\* lines 121-137: what the connection test prints
test_credentials_connection(reply) ==
    IF reply.exc # NoExc
    THEN << <<"Connection test failed: ", reply.exc.msg>> >>
    ELSE IF reply.response.status_code = 200
    THEN IF reply.json_ok
         THEN <<"Connection successful!", "Device Status: ", "Interface: ">>
         ELSE <<"Connection successful!", <<"Connection test failed: ", "JSONDecodeError">> >>
    ELSE IF reply.response.status_code = 401
    THEN <<"Authentication failed - check credentials">>
    ELSE << <<"Unexpected response: ", reply.response.status_code>> >>

\* test_credentials, lines 84-137, in a directory with the .env `file`, a process
\* environment `env` and a device that gives `reply`: what is printed, os.environ
\* afterwards, the exception that leaves the function, the credentials sent
test_credentials_run(file, env, reply) ==
    LET loaded == test_credentials_load(file, env)
        printed == <<"Testing Credentials">>
                   \o (IF file.exists THEN <<"Loading credentials from .env file...">>
                       ELSE <<>>)
        device_ip == getenv(loaded.environ, DEVICE_IP, DefaultDeviceIp)
        username == getenv(loaded.environ, DEVICE_USERNAME, PyNone)
        password == getenv(loaded.environ, DEVICE_PASSWORD, PyNone)
    IN IF loaded.raised # "None"
       THEN [stdout |-> printed, environ |-> loaded.environ, raised |-> loaded.raised,
             username |-> PyNone, password |-> PyNone]
       ELSE IF ~Truthy(username) \/ ~Truthy(password)
       THEN [stdout |-> Append(printed, "Credentials not found. Run the setup first."),
             environ |-> loaded.environ, raised |-> "None",
             username |-> PyNone, password |-> PyNone]
       ELSE [stdout |-> printed
                        \o << <<"Device IP: ", device_ip>>,
                              <<"Username: ", username>>,
                              <<"Password: ", masked(password)>>,
                              <<"Testing connection to: ", device_ip>> >>
                        \o test_credentials_connection(reply),
             environ |-> loaded.environ, raised |-> "None",
             username |-> username, password |-> password]

\* config_credentials.test_credentials()
test_credentials ==
    /\ StartScript
    /\ \E reply \in ScriptReplies :
         LET run == test_credentials_run(envFile, environ, reply)
         IN /\ stdout' = run.stdout
            /\ environ' = run.environ
            /\ raised' = run.raised
            /\ auth' = [script |-> "config_credentials", username |-> run.username,
                        password |-> run.password]
            /\ frame' = [NoFrame EXCEPT !.fn = "config_credentials.test_credentials",
                                        !.value = environ,
                                        !.exc = reply.exc, !.response = reply.response,
                                        !.i = IF reply.json_ok THEN 1 ELSE 0]
    /\ UNCHANGED <<client, pc, result, open, sent, lastReq, conn, server,
                   envFile, gitignore, out, now, project>>

\* a directory with one of the .env files and a process environment
InitLoad ==
    /\ envFile \in LoadFiles
    /\ gitignore = NoFile
    /\ environ \in {NoEnviron,
                    (DEVICE_USERNAME :> <<"c","a","r","o","l">>)
                    @@ (DEVICE_PASSWORD :> <<"e","n","v","p","w">>)}
    /\ client = SelfSignedHTTPSClient(FALSE, None)
    /\ pc = "idle"
    /\ frame = NoFrame
    /\ result = EmptyDict
    /\ raised = "None"
    /\ open = {}
    /\ callNo = 0
    /\ sent = 0
    /\ lastReq = NoReq
    /\ conn = NoConn
    /\ server = DeviceCert
    /\ auth = NoAuth
    /\ out = NoOut
    /\ ScriptInit

NextLoad ==
    \/ iot_client_load_env_file
    \/ api_test_import
    \/ test_credentials

SpecLoad == InitLoad /\ [][NextLoad]_vars

----------------------------------------------------------------------------
(* The stated rules of .env, and the properties checked under SpecLoad *)

IsBlank(l) == \A i \in 1..Len(l) : l[i] \in Whitespace

\* the first character of l that is not white space is '#'
IsComment(l) ==
    \E i \in 1..Len(l) : l[i] = "#" /\ \A j \in 1..(i - 1) : l[j] \in Whitespace

HasEquals(l) == \E i \in 1..Len(l) : l[i] = "="

IsPairLine(l) == ~IsBlank(l) /\ ~IsComment(l) /\ HasEquals(l)

\* the position of the first '='
FirstEquals(l) == CHOOSE i \in 1..Len(l) : l[i] = "=" /\ \A j \in 1..(i - 1) : l[j] # "="

\* s without the white space around it
Trimmed(s) ==
    IF IsBlank(s) THEN <<>>
    ELSE LET a == CHOOSE i \in 1..Len(s) :
                     s[i] \notin Whitespace /\ \A j \in 1..(i - 1) : s[j] \in Whitespace
             b == CHOOSE i \in 1..Len(s) :
                     s[i] \notin Whitespace /\ \A j \in (i + 1)..Len(s) : s[j] \in Whitespace
         IN [k \in 1..(b - a + 1) |-> s[a + k - 1]]

KeyOf(l) == Trimmed([k \in 1..(FirstEquals(l) - 1) |-> l[k]])

ValueOf(l) == Trimmed([k \in 1..(Len(l) - FirstEquals(l)) |-> l[FirstEquals(l) + k]])

\* the pairs the rules give for a file: for each key the value of its last line
ExpectedPairs(file) ==
    LET ls == IF file.exists THEN Lines(file.text) ELSE <<>>
        P == {i \in 1..Len(ls) : IsPairLine(ls[i])}
    IN [key \in {KeyOf(ls[i]) : i \in P} |->
          ValueOf(ls[CHOOSE i \in P :
                        KeyOf(ls[i]) = key /\ \A j \in P : KeyOf(ls[j]) = key => j <= i])]

\* C15: load_env_file of iot_client and of api_test skips blank lines, comment
\* lines and lines without '=', splits every other line at its first '=' and
\* strips key and value, lets the last line of a key win, and yields no pairs
\* and no exception for a missing file.
C15_LoadEnvRules ==
    /\ frame.fn = "iot_client.load_env_file" =>
         (raised = "None" /\ result = ExpectedPairs(envFile))
    /\ frame.fn = "api_test.load_env_file" =>
         (raised = "None" /\ environ = ExpectedPairs(envFile) @@ frame.value)

----------------------------------------------------------------------------
(* Writing .env with create_env_file and loading it again *)

\* a directory without .env or with one edited by hand; the helper runs, then a
\* script loads the file
InitRoundTrip ==
    /\ envFile \in {NoFile, HandEditedEnv}
    /\ gitignore = NoFile
    /\ environ \in {NoEnviron,
                    (DEVICE_USERNAME :> <<"c","a","r","o","l">>)
                    @@ (DEVICE_PASSWORD :> <<"e","n","v","p","w">>)}
    /\ client = SelfSignedHTTPSClient(FALSE, None)
    /\ pc = "idle"
    /\ frame = NoFrame
    /\ result = EmptyDict
    /\ raised = "None"
    /\ open = {}
    /\ callNo = 0
    /\ sent = 0
    /\ lastReq = NoReq
    /\ conn = NoConn
    /\ server = DeviceCert
    /\ auth = NoAuth
    /\ out = NoOut
    /\ ScriptInit

NextRoundTrip ==
    \/ /\ callNo = 0
       /\ \E a \in {<<"y">>, <<"n">>}, ip \in IpInputs,
             u \in {<<"a","d","m","i","n">>, <<" ","r","o","o","t"," ">>},
             p \in PasswordInputs \ {<<" ">>}, w \in BOOLEAN :
               create_env_file(a, ip, u, p, w)
    \/ iot_client_load_env_file
    \/ api_test_import

SpecRoundTrip == InitRoundTrip /\ [][NextRoundTrip]_vars

\* C16: load_env_file applied to the .env that create_env_file has just written
\* returns the device IP, user name and password that were entered (stripped,
\* the default address for an empty one), whatever '=', '#' or inner spaces they
\* contain.
C16_RoundTrip ==
    [][ (out.status = "created" /\ callNo = 0 /\ callNo' = 1) =>
          LET loaded == IF frame'.fn = "iot_client.load_env_file" THEN result'
                        ELSE environ'
          IN /\ raised' = "None"
             /\ {DEVICE_IP, DEVICE_USERNAME, DEVICE_PASSWORD} \subseteq DOMAIN loaded
             /\ loaded[DEVICE_IP] = (IF IsBlank(out.device_ip) THEN DefaultDeviceIp
                                     ELSE Trimmed(out.device_ip))
             /\ loaded[DEVICE_USERNAME] = Trimmed(out.username)
             /\ loaded[DEVICE_PASSWORD] = Trimmed(out.password) ]_vars

\* api_test has loaded a generated .env whose password contains '=' and '#'
C16_Witness ==
    /\ out.status = "created"
    /\ out.password = <<"s","3","=","c","#","t">>
    /\ frame.fn = "api_test.load_env_file"
    /\ raised = "None"
    /\ DEVICE_PASSWORD \in DOMAIN environ
    /\ environ[DEVICE_PASSWORD] = <<"s","3","=","c","#","t">>

\* C17: for every .env edited by hand (comments, indented comments, blank
\* lines, lines without '=', 'KEY = value' lines, no line with an empty key) the
\* loader inside test_credentials ends
\* without an exception and leaves DEVICE_IP, DEVICE_USERNAME and
\* DEVICE_PASSWORD with the values that load_env_file gives for the same file.
C17_TestCredentialsLoadsAlike ==
    (/\ frame.fn = "config_credentials.test_credentials"
     /\ <<>> \notin DOMAIN ExpectedPairs(envFile)) =>
        /\ raised = "None"
        /\ \A key \in {DEVICE_IP, DEVICE_USERNAME, DEVICE_PASSWORD} :
             getenv(environ, key, PyNone)
                = getenv(load_env_file(envFile) @@ frame.value, key, PyNone)

----------------------------------------------------------------------------
(* Endpoint discovery: api_test.test_multiple_api_endpoints,
   local_site_access.explore_site_paths, LocalSiteClient.explore_common_paths *)

\* api_test.py lines 129-138
api_endpoints == <<"/api/v1/status", "/api/status", "/api/v1/info", "/api/v1/health",
                   "/api/v1/version", "/status", "/health", "/info">>

\* local_site_access.py lines 118-130
site_paths == <<"/", "/ui", "/admin", "/dashboard", "/status", "/api",
                "/api/v1/status", "/config", "/settings", "/logs", "/monitor">>

\* response.headers.get('content-type', 'Unknown')
content_type_or_unknown(response) ==
    IF response.content_type = None THEN "Unknown" ELSE response.content_type

\* api_test.py lines 158-172: the entry of an answered endpoint; json_ok tells
\* whether response.json() parses the body
endpoint_entry(response, json_ok) ==
    LET entry == ("status_code" :> response.status_code)
                 @@ ("content_type" :> content_type_or_unknown(response))
                 @@ ("content_length" :> response.len)
                 @@ ("success" :> (response.status_code = 200))
    IN IF response.status_code = 200 /\ response.content_type = "application/json"
       THEN IF json_ok THEN ("json_preview" :> "json") @@ entry
            ELSE ("text_preview" :> Preview(response, 200)) @@ entry
       ELSE IF response.status_code = 200
       THEN ("text_preview" :> Preview(response, 200)) @@ entry
       ELSE entry

\* local_site_access.py lines 143-149: the entry of an answered path
site_path_entry(path, response) ==
    ("status_code" :> response.status_code)
    @@ ("final_url" :> path)
    @@ ("content_type" :> content_type_or_unknown(response))
    @@ ("content_length" :> response.len)
    @@ ("server" :> "Unknown")

\* the head of both script functions: one httpx.Client(verify=False, ...) is
\* opened around the whole loop
Discovery_Call(fn, at) ==
    /\ StartCall
    /\ result' = EmptyDict
    /\ LET f == [NoFrame EXCEPT !.fn = fn, !.url = GoodUrl, !.verify = "False", !.i = 1]
       IN /\ frame' = Opened(f, callNo + 1)
          /\ open' = open \cup {NewRes(f, callNo + 1)}
    /\ pc' = at
    /\ UNCHANGED <<client, server, envFile, gitignore, environ, auth, out, scriptVars>>

\* api_test.py lines 145-147
test_multiple_api_endpoints_Call ==
    Discovery_Call("api_test.test_multiple_api_endpoints", "endpoints_get")

\* api_test.py lines 148-179: one pass of the loop
test_multiple_api_endpoints_Get ==
    /\ pc = "endpoints_get"
    /\ frame.i <= Len(api_endpoints)
    /\ sent' = sent + 1
    /\ lastReq' = [res |-> frame.held[Len(frame.held)], call |-> callNo]
    /\ conn' = [by |-> frame.fn,
                verify_mode |-> httpx_ssl_context(frame.verify).verify_mode,
                roots |-> httpx_ssl_context(frame.verify).roots]
    /\ LET endpoint == api_endpoints[frame.i]
       IN \/ \E json_ok \in BOOLEAN :
               /\ result' = (endpoint :> endpoint_entry(SiteReply(endpoint), json_ok))
                            @@ result
               /\ frame' = [frame EXCEPT !.i = @ + 1, !.requested = Append(@, endpoint)]
          \/ /\ frame.faults < MaxFaults
             /\ result' = record_error(result, endpoint, "ReadTimeout")
             /\ frame' = [frame EXCEPT !.i = @ + 1, !.faults = @ + 1,
                                       !.requested = Append(@, endpoint),
                                       !.failed = @ \cup {endpoint}]
    /\ UNCHANGED <<client, pc, raised, open, callNo, server,
                   envFile, gitignore, environ, auth, out, scriptVars>>

\* api_test.py line 181, after the with block is left
test_multiple_api_endpoints_Return ==
    /\ pc = "endpoints_get"
    /\ frame.i > Len(api_endpoints)
    /\ open' = ExitWith(frame.held)
    /\ frame' = [frame EXCEPT !.held = <<>>]
    /\ pc' = "idle"
    /\ UNCHANGED <<client, result, raised, callNo, sent, lastReq, conn, server,
                   envFile, gitignore, environ, auth, out, scriptVars>>

\* local_site_access.py lines 132-138
explore_site_paths_Call ==
    Discovery_Call("local_site_access.explore_site_paths", "paths_get")

\* local_site_access.py lines 139-158: one pass of the loop
explore_site_paths_Get ==
    /\ pc = "paths_get"
    /\ frame.i <= Len(site_paths)
    /\ sent' = sent + 1
    /\ lastReq' = [res |-> frame.held[Len(frame.held)], call |-> callNo]
    /\ conn' = [by |-> frame.fn,
                verify_mode |-> httpx_ssl_context(frame.verify).verify_mode,
                roots |-> httpx_ssl_context(frame.verify).roots]
    /\ LET path == site_paths[frame.i]
       IN \/ /\ result' = (path :> site_path_entry(path, SiteReply(path))) @@ result
             /\ frame' = [frame EXCEPT !.i = @ + 1, !.requested = Append(@, path)]
          \/ /\ frame.faults < MaxFaults
             /\ result' = record_error(result, path, "ReadTimeout")
             /\ frame' = [frame EXCEPT !.i = @ + 1, !.faults = @ + 1,
                                       !.requested = Append(@, path),
                                       !.failed = @ \cup {path}]
    /\ UNCHANGED <<client, pc, raised, open, callNo, server,
                   envFile, gitignore, environ, auth, out, scriptVars>>

\* local_site_access.py line 160, after the with block is left
explore_site_paths_Return ==
    /\ pc = "paths_get"
    /\ frame.i > Len(site_paths)
    /\ open' = ExitWith(frame.held)
    /\ frame' = [frame EXCEPT !.held = <<>>]
    /\ pc' = "idle"
    /\ UNCHANGED <<client, result, raised, callNo, sent, lastReq, conn, server,
                   envFile, gitignore, environ, auth, out, scriptVars>>

\* a LocalSiteClient and a site; the scripts' functions need no client object
InitDiscovery ==
    /\ envFile = NoFile
    /\ gitignore = NoFile
    /\ environ = NoEnviron
    /\ client \in {LocalSiteClient(v, ca) : v \in BOOLEAN, ca \in CaPaths}
    /\ pc = "idle"
    /\ frame = NoFrame
    /\ result = EmptyDict
    /\ raised = "None"
    /\ open = {}
    /\ callNo = 0
    /\ sent = 0
    /\ lastReq = NoReq
    /\ conn = NoConn
    /\ server \in Certs
    /\ auth = NoAuth
    /\ out = "None"
    /\ ScriptInit

NextDiscovery ==
    \/ test_multiple_api_endpoints_Call
    \/ test_multiple_api_endpoints_Get
    \/ test_multiple_api_endpoints_Return
    \/ explore_site_paths_Call
    \/ explore_site_paths_Get
    \/ explore_site_paths_Return
    \/ explore_common_paths_Call
    \/ explore_common_paths_Open
    \/ explore_common_paths_Get
    \/ explore_common_paths_Return

SpecDiscovery == InitDiscovery /\ [][NextDiscovery]_vars

\* the path list of each discovery function
DiscoveryPaths ==
    ("api_test.test_multiple_api_endpoints" :> api_endpoints)
    @@ ("local_site_access.explore_site_paths" :> site_paths)
    @@ ("LocalSiteClient.explore_common_paths" :> common_paths)

PathSet(paths) == {paths[k] : k \in 1..Len(paths)}

\* a discovery function has returned
DiscoveryReturned == pc = "idle" /\ frame.fn \in DOMAIN DiscoveryPaths

\* the paths whose entry is {'error': ...}
ErrorPaths == {p \in DOMAIN result : DOMAIN result[p] = {"error"}}

\* C18 as stated: a discovery function requests every path of its list exactly
\* once and in list order, returns exactly one entry per path, and records an
\* exception as the error entry of the path it happened on and of no other.
C18_RequestsEveryPath ==
    DiscoveryReturned =>
        LET paths == DiscoveryPaths[frame.fn]
        IN /\ raised = "None"
           /\ frame.requested = paths
           /\ DOMAIN result = PathSet(paths)
           /\ ErrorPaths = frame.failed

\* the paths for which no HTTP client could be built: all of them when
\* LocalSiteClient verifies against a CA file that cannot be loaded
Unbuilt ==
    IF frame.fn = "LocalSiteClient.explore_common_paths"
       /\ ~httpx_client_constructs(frame.verify)
    THEN PathSet(common_paths) ELSE {}

\* C18, amended: a discovery function attempts every path of its list once and
\* in list order and returns exactly one entry per path; it requests every
\* path for which an HTTP client could be built, and an exception on a path,
\* the failure to build the client included, is the error entry of that path
\* and of no other.
C18_AttemptsEveryPath ==
    DiscoveryReturned =>
        LET paths == DiscoveryPaths[frame.fn]
        IN /\ raised = "None"
           /\ frame.i = Len(paths) + 1
           /\ frame.requested = SelectSeq(paths, LAMBDA p : p \notin Unbuilt)
           /\ DOMAIN result = PathSet(paths)
           /\ ErrorPaths = frame.failed
           /\ Unbuilt \subseteq frame.failed

\* explore_site_paths has returned after a timeout on a path that is not the
\* last: the later paths were requested and have entries of their own
C18_Witness ==
    /\ DiscoveryReturned
    /\ frame.fn = "local_site_access.explore_site_paths"
    /\ frame.failed = {"/admin"}
    /\ Len(frame.requested) = Len(site_paths)
    /\ "status_code" \in DOMAIN result["/monitor"]

----------------------------------------------------------------------------
(* What the credential-reporting scripts print *)

\* the results of get_status that a run of iot_client.main is given
MainResults ==
    {res \in get_status_results(IoTDeviceClient(PyNone, PyNone, FALSE, NoFile, NoEnviron)) :
        /\ "status_code" \in DOMAIN res => res["status_code"] \in {200, 401}
        /\ \A k \in {"data", "raw", "text"} \cap DOMAIN res : res[k] = 0}

\* monitor_device called by main: at least one check happens, more follow while
\* the 30 seconds last
MaxChecks == 1

\* what the device and the user give to one run of main: the result of the
\* status request, of the request made by the analysis, whether the JSON object
\* has the keys that are read, the answer to the monitoring prompt and the
\* results of the checks made when monitoring
MainSessions ==
    {[status |-> a, analysis |-> b, complete |-> c, answer |-> <<"n">>, checks |-> <<>>] :
        a \in MainResults, b \in MainResults, c \in BOOLEAN}
    \cup {[status |-> a, analysis |-> b, complete |-> c, answer |-> <<" ","Y","e","s">>,
           checks |-> m] :
        a \in MainResults, b \in MainResults, c \in BOOLEAN,
        m \in UNION {[1..k -> MainResults] : k \in 1..MaxChecks}}

\* iot_client.main lines 209-227
main_status(res, complete) ==
    IF res["success"]
    THEN IF "data" \notin DOMAIN res
         THEN [lines |-> <<>>, raised |-> "KeyError"]
         ELSE IF ~complete
         THEN [lines |-> <<"Device Online">>, raised |-> "KeyError"]
         ELSE [lines |-> <<"Device Online", "Interface", "Serial Number", "Status",
                           "Last Update", "Connectivity Status">>,
               raised |-> "None"]
    ELSE [lines |-> << <<"Failed to get status: ", Get(res, "error", "None")>> >>,
          raised |-> "None"]

\* analyze_device_capabilities, lines 130-159: the serial number found, or the
\* error
analyze_device_capabilities(res, complete) ==
    IF ~res["success"] THEN ("error" :> "Could not retrieve device status")
    ELSE ("serial_number" :> (IF "data" \in DOMAIN res /\ complete THEN "serial"
                              ELSE "Unknown"))

\* main lines 230-249
main_analysis(res, complete) ==
    LET analysis == analyze_device_capabilities(res, complete)
    IN <<"Device Analysis", "Getting device status...">>
       \o (IF "error" \notin DOMAIN analysis
           THEN << <<"Serial: ", analysis["serial_number"]>>, "Capabilities",
                   "Connectivity">>
           ELSE << <<"Analysis failed: ", analysis["error"]>> >>)

\* monitor_device lines 177-191 for the checks that happen: the lines printed and
\* the exception that ends the loop
RECURSIVE monitor_checks(_, _, _)
monitor_checks(checks, k, complete) ==
    IF k > Len(checks) THEN [lines |-> <<>>, raised |-> "None"]
    ELSE IF check_line(k, checks[k], complete) = "KeyError"
    THEN [lines |-> <<"Getting device status...">>, raised |-> "KeyError"]
    ELSE LET rest == monitor_checks(checks, k + 1, complete)
         IN [lines |-> <<"Getting device status...", check_line(k, checks[k], complete)>>
                       \o rest.lines,
             raised |-> rest.raised]

\* main lines 252-260 with monitor_device lines 171-193
main_monitoring(answer, checks, complete) ==
    IF lower(strip(answer)) \in { <<"y">>, <<"y","e","s">> }
    THEN LET m == monitor_checks(checks, 1, complete)
         IN [lines |-> <<"Device Monitoring", "Monitoring device for 30 seconds">>
                       \o m.lines
                       \o (IF m.raised = "None"
                           THEN << <<"Monitoring completed", Len(checks)>> >> ELSE <<>>),
             raised |-> m.raised]
    ELSE [lines |-> <<"Device Monitoring", "Skipping monitoring">>, raised |-> "None"]

\* iot_client.main, lines 198-272, in a directory with the .env `file`, with the
\* process environment `env`, given the session `s`: the text printed, the
\* exception that ends the script and the credentials used
main_run(file, env, s) ==
    LET device == IoTDeviceClient(PyNone, PyNone, FALSE, file, env)
        head == (IF file.exists THEN <<>> ELSE <<"Warning: .env file not found">>)
                \o <<"IoT Device API Client",
                     <<"Connecting to device at ", DefaultDeviceIp>>,
                     <<"Using credentials: ", device.username, masked(device.password)>>,
                     "Current Device Status", "Getting device status...">>
        first == main_status(s.status, s.complete)
        third == main_monitoring(s.answer, s.checks, s.complete)
        tips == <<"IoT device interaction completed!",
                  <<"Tips: serial ",
                    Get(analyze_device_capabilities(s.analysis, s.complete),
                        "serial_number", "Unknown")>> >>
    IN IF first.raised # "None"
       THEN [stdout |-> head \o first.lines, raised |-> first.raised,
             username |-> device.username, password |-> device.password]
       ELSE IF third.raised # "None"
       THEN [stdout |-> head \o first.lines \o main_analysis(s.analysis, s.complete)
                        \o third.lines,
             raised |-> third.raised,
             username |-> device.username, password |-> device.password]
       ELSE [stdout |-> head \o first.lines \o main_analysis(s.analysis, s.complete)
                        \o third.lines \o tips,
             raised |-> "None",
             username |-> device.username, password |-> device.password]

\* python iot_client.py
iot_client_main ==
    /\ StartScript
    /\ \E s \in MainSessions :
         LET run == main_run(envFile, environ, s)
         IN /\ stdout' = run.stdout
            /\ raised' = run.raised
            /\ auth' = [script |-> "iot_client", username |-> run.username,
                        password |-> run.password]
            /\ frame' = [NoFrame EXCEPT !.fn = "iot_client.main", !.value = environ,
                                        !.session = s]
    /\ UNCHANGED <<client, pc, result, open, sent, lastReq, conn, server,
                   envFile, gitignore, environ, out, now, project>>

\* api_test.test_api_endpoint lines 74-119: the returned dictionary
test_api_endpoint_result(reply) ==
    IF reply.exc # NoExc
    THEN ("success" :> FALSE) @@ ("error" :> <<"Request error: ", reply.exc.msg>>)
         @@ ("error_type" :> "connection")
    ELSE ("success" :> (reply.response.status_code = 200))
         @@ ("status_code" :> reply.response.status_code)
         @@ ("content_length" :> reply.response.len)
         @@ (IF reply.response.content_type = "application/json" /\ reply.json_ok
             THEN "json_data" :> reply.response.len
             ELSE "text_content" :> reply.response.len)

\* api_test.py line 27 and test_api_endpoint lines 38-50: os.environ after the
\* import, the exception of the import, the text printed, the credentials
test_api_endpoint_run(file, env) ==
    LET loaded == api_test_load_env_file(file, env)
        username == getenv(loaded.environ, DEVICE_USERNAME, your_username)
        password == getenv(loaded.environ, DEVICE_PASSWORD, your_password)
    IN IF loaded.raised # "None"
       THEN [stdout |-> <<>>, environ |-> loaded.environ, raised |-> loaded.raised,
             username |-> PyNone, password |-> PyNone]
       ELSE [stdout |-> <<"Testing API Endpoint", <<"URL: ", GoodUrl, "/api/v1/status">>,
                          <<"Auth: ", username, masked(password)>>, "====">>,
             environ |-> loaded.environ, raised |-> "None",
             username |-> username, password |-> password]

\* import api_test; api_test.test_api_endpoint()
test_api_endpoint ==
    /\ StartScript
    /\ \E reply \in ScriptReplies :
         LET run == test_api_endpoint_run(envFile, environ)
         IN /\ stdout' = run.stdout
            /\ environ' = run.environ
            /\ raised' = run.raised
            /\ result' = IF run.raised = "None" THEN test_api_endpoint_result(reply)
                         ELSE result
            /\ auth' = [script |-> "api_test", username |-> run.username,
                        password |-> run.password]
            /\ frame' = [NoFrame EXCEPT !.fn = "api_test.test_api_endpoint",
                                        !.value = environ, !.session = reply]
    /\ UNCHANGED <<client, pc, open, sent, lastReq, conn, server,
                   envFile, gitignore, out, now, project>>

\* local_site_access.connect_to_local_site lines 52-103: the returned dictionary
connect_to_local_site_result(reply) ==
    IF reply.exc # NoExc
    THEN ("success" :> FALSE) @@ ("error" :> <<"Request error: ", reply.exc.msg>>)
    ELSE ("success" :> (reply.response.status_code = 200))
         @@ ("status_code" :> reply.response.status_code)
         @@ ("content_length" :> reply.response.len)
         @@ ("content_preview" :>
                IF reply.response.content_type \in {"text/html", "application/json"}
                THEN Preview(reply.response, 1000)
                ELSE <<"Binary content", reply.response.len>>)

\* connect_to_local_site lines 20-30: the text printed and the credentials
connect_to_local_site_run(env) ==
    LET username == getenv(env, DEVICE_USERNAME, your_username)
        password == getenv(env, DEVICE_PASSWORD, your_password)
    IN [stdout |-> << <<"Connecting to: ", GoodUrl>>, <<"Username: ", username>>,
                      <<"Password: ", masked(password)>>, "">>,
        username |-> username, password |-> password]

\* local_site_access.connect_to_local_site()
connect_to_local_site ==
    /\ StartScript
    /\ \E reply \in ScriptReplies :
         LET run == connect_to_local_site_run(environ)
         IN /\ stdout' = run.stdout
            /\ result' = connect_to_local_site_result(reply)
            /\ auth' = [script |-> "local_site_access", username |-> run.username,
                        password |-> run.password]
            /\ frame' = [NoFrame EXCEPT !.fn = "local_site_access.connect_to_local_site",
                                        !.value = environ, !.session = reply]
    /\ UNCHANGED <<client, pc, raised, open, sent, lastReq, conn, server,
                   envFile, gitignore, environ, out, now, project>>

\* passwords, some of equal length
Passwords == { <<"p","w">>, <<"s","3","c","r","e","t">>, <<"h","u","n","t","e","r">>,
               <<"p","=","w","#","1">>, <<"a","d","m","i","n">> }

\* where the password is configured
SecretKinds == {"environ", ".env", ".env over environ"}

\* the .env file and the process environment of a run whose password is p
Config(kind, p) ==
    CASE kind = "environ" ->
           [file |-> NoFile,
            env |-> (DEVICE_USERNAME :> <<"c","a","r","o","l">>) @@ (DEVICE_PASSWORD :> p)]
      [] kind = ".env" ->
           [file |-> File(JoinLines(<<UserLine, DEVICE_PASSWORD \o <<"=">> \o p>>)),
            env |-> NoEnviron]
      [] kind = ".env over environ" ->
           [file |-> File(JoinLines(<<CommentLine, DEVICE_PASSWORD \o <<"=">> \o p>>)),
            env |-> (DEVICE_USERNAME :> <<"c","a","r","o","l">>)
                    @@ (DEVICE_PASSWORD :> <<"e","n","v","p","w">>)]

InitConsole ==
    /\ \E kind \in SecretKinds, p \in Passwords :
         /\ envFile = Config(kind, p).file
         /\ environ = Config(kind, p).env
    /\ gitignore = NoFile
    /\ client = SelfSignedHTTPSClient(FALSE, None)
    /\ pc = "idle"
    /\ frame = NoFrame
    /\ result = EmptyDict
    /\ raised = "None"
    /\ open = {}
    /\ callNo = 0
    /\ sent = 0
    /\ lastReq = NoReq
    /\ conn = NoConn
    /\ server = DeviceCert
    /\ auth = NoAuth
    /\ out = NoOut
    /\ ScriptInit

NextConsole ==
    \/ iot_client_main
    \/ test_api_endpoint
    \/ connect_to_local_site
    \/ test_credentials

SpecConsole == InitConsole /\ [][NextConsole]_vars

ConsoleScripts == {"iot_client.main", "api_test.test_api_endpoint",
                   "local_site_access.connect_to_local_site",
                   "config_credentials.test_credentials"}

\* what the script of frame f prints in the configuration c, with the same
\* device replies and user input as in the run of f
ConsoleOf(f, c) ==
    CASE f.fn = "iot_client.main" -> main_run(c.file, c.env, f.session).stdout
      [] f.fn = "api_test.test_api_endpoint" -> test_api_endpoint_run(c.file, c.env).stdout
      [] f.fn = "local_site_access.connect_to_local_site" ->
           connect_to_local_site_run(c.env).stdout
      [] f.fn = "config_credentials.test_credentials" ->
           test_credentials_run(c.file, c.env,
                                [exc |-> f.exc, response |-> f.response,
                                 json_ok |-> (f.i = 1)]).stdout

\* C19: the text a credential-reporting script prints depends on the password
\* only through its length: the run with another password of the same length,
\* configured in the same place, with the same replies of the device, prints
\* the same text.
C19_OutputShowsLengthOnly ==
    \A kind \in SecretKinds, p1 \in Passwords, p2 \in Passwords :
        (/\ frame.fn \in ConsoleScripts
         /\ Len(p1) = Len(p2)
         /\ envFile = Config(kind, p1).file
         /\ frame.value = Config(kind, p1).env)
        => stdout = ConsoleOf(frame, Config(kind, p2))

\* main has run to its end with the password 's3cret' of .env and has printed
\* the credentials line with six stars
C19_Witness ==
    /\ frame.fn = "iot_client.main"
    /\ raised = "None"
    /\ auth.password = <<"s","3","c","r","e","t">>
    /\ envFile.exists
    /\ Len(stdout) > 3
    /\ stdout[3] = <<"Using credentials: ", <<"a","d","m","i","n">>,
                     <<"*","*","*","*","*","*">> >>
    /\ stdout[Len(stdout)] = <<"Tips: serial ", "serial">>

====
